---- MODULE Spec2Model ----
(***************************************************************************)
(* ghp: GitHub API reverse proxy issuing scoped, short-lived proxy tokens. *)
(*                                                                         *)
(* Strings are modelled as sequences of atoms.  An atom is an indivisible  *)
(* piece of text ("/", "repos", "acme", "ghp_", ...); two strings are      *)
(* equal iff their atom sequences are equal, a prefix is a prefix of the   *)
(* atom sequence, and splitting on "/" splits at the "/" atoms.  Time is   *)
(* counted in ticks of five minutes.                                       *)
(*                                                                         *)
(* Spec is the proxy in a fault-free environment: every store call         *)
(* succeeds and no inbound request is cancelled while it is handled.       *)
(* SpecFaults adds client disconnects and store failures, and SpecAuth is  *)
(* the OAuth login and the management API on a new installation, with the  *)
(* proxy behind them in one class of traffic.  SpecStore is SpecFaults     *)
(* with a store that may also fail to update a usage or to insert an       *)
(* audit row.  SpecShutdown is the proxy with the server's termination,   *)
(* SpecLibrary calls the pure functions of the scope, crypto and proxy     *)
(* packages once on an enumerated input, and SpecMigrate is the schema     *)
(* migrator on a database that gains migration files between runs.        *)
(***************************************************************************)
EXTENDS Integers, Sequences, FiniteSets, TLC

(***************************************************************************)
(* Bounds of the model.                                                    *)
(***************************************************************************)
MaxTime == 2

MaxTokens == 1

MaxRequests == 1

\* Last tick of the clock in runs of the login and management layer.
MaxLoginTime == 3

\* State nonces GET /auth/github issues in a run.
MaxLogins == 2

\* Callbacks each callback goroutine serves in a run.
MaxCallbacks == 1

\* Proxy tokens POST /api/tokens creates in a run.
MaxApiTokens == 2

(***************************************************************************)
(* String helpers (package strings).                                       *)
(***************************************************************************)
HasPrefix(s, p) ==
    /\ Len(s) >= Len(p)
    /\ SubSeq(s, 1, Len(p)) = p

Drop(s, n) == SubSeq(s, n + 1, Len(s))

TrimPrefix(s, p) == IF HasPrefix(s, p) THEN Drop(s, Len(p)) ELSE s

\* Index of the first occurrence of atom sep in s, 0 when there is none.
IndexOf(s, sep) ==
    IF \E i \in 1..Len(s) : s[i] = sep
    THEN CHOOSE i \in 1..Len(s) : s[i] = sep /\ \A j \in 1..(i - 1) : s[j] # sep
    ELSE 0

RECURSIVE SplitN(_, _, _)
SplitN(s, sep, n) ==
    IF n = 1 \/ IndexOf(s, sep) = 0
    THEN <<s>>
    ELSE <<SubSeq(s, 1, IndexOf(s, sep) - 1)>> \o SplitN(Drop(s, IndexOf(s, sep)), sep, n - 1)

\* The string a sequence of atoms spells.
RECURSIVE Text(_)
Text(s) == IF s = <<>> THEN "" ELSE Head(s) \o Text(Tail(s))

\* Case folding of the atoms that carry upper-case letters.
ToLowerAtom(a) ==
    CASE a = "Acme" -> "acme"
      [] a = "Widget" -> "widget"
      [] a = "Bearer" -> "bearer"
      [] a = "BEARER" -> "bearer"
      [] a = "Token" -> "token"
      [] a = "Alice" -> "alice"
      [] OTHER -> a

ToLower(s) == [i \in 1..Len(s) |-> ToLowerAtom(s[i])]

EqualFold(s, t) == ToLower(s) = ToLower(t)

IsDigits(a) == a \in {"1", "42"}

(***************************************************************************)
(* Endpoint -> scope table (package proxy, scope.go).                      *)
(***************************************************************************)
Lit(v) == [type |-> "lit", v |-> v, vs |-> {}, p |-> <<>>]

Seg == [type |-> "seg", v |-> <<>>, vs |-> {}, p |-> <<>>]

Num == [type |-> "num", v |-> <<>>, vs |-> {}, p |-> <<>>]

Alt(vs) == [type |-> "alt", v |-> <<>>, vs |-> vs, p |-> <<>>]

Rest == [type |-> "any", v |-> <<>>, vs |-> {}, p |-> <<>>]

Opt(p) == [type |-> "opt", v |-> <<>>, vs |-> {}, p |-> p]

\* regexp.MatchString for the anchored patterns of the table: pat is a
\* sequence of pattern elements, s the text that has to match all of it.
RECURSIVE MatchString(_, _)
MatchString(pat, s) ==
    IF pat = <<>>
    THEN s = <<>>
    ELSE LET e == Head(pat)
             rest == Tail(pat)
         IN  CASE e.type = "lit" ->
                    HasPrefix(s, e.v) /\ MatchString(rest, Drop(s, Len(e.v)))
               [] e.type = "seg" ->
                    \E k \in 1..Len(s) :
                        /\ \A i \in 1..k : s[i] # "/"
                        /\ MatchString(rest, Drop(s, k))
               [] e.type = "num" ->
                    \E k \in 1..Len(s) :
                        /\ \A i \in 1..k : IsDigits(s[i])
                        /\ MatchString(rest, Drop(s, k))
               [] e.type = "alt" ->
                    \E v \in e.vs :
                        HasPrefix(s, <<v>>) /\ MatchString(rest, Drop(s, 1))
               [] e.type = "any" ->
                    \E k \in 0..Len(s) : MatchString(rest, Drop(s, k))
               [] e.type = "opt" ->
                    MatchString(rest, s) \/ MatchString(e.p \o rest, s)

\* ^/repos/[^/]+/[^/]+
RepoPat == <<Lit(<<"/", "repos", "/">>), Seg, Lit(<<"/">>), Seg>>

\* (/.*)?
OptRest == Opt(<<Lit(<<"/">>), Rest>>)

Sub(name) == Lit(<<"/", name>>)

GitKinds == {"refs", "trees", "blobs", "commits", "tags"}

PullSubsRead == {"files", "commits", "reviews", "comments", "requested_reviewers"}

PullSubsWrite == {"reviews", "comments", "requested_reviewers"}

Rule(pattern, method, permission, level) ==
    [pattern |-> pattern, method |-> method, permission |-> permission, level |-> level]

rules ==
    << Rule(RepoPat \o <<Sub("contents"), OptRest>>, "GET", "contents", "read"),
       Rule(RepoPat \o <<Sub("contents"), OptRest>>, "PUT", "contents", "write"),
       Rule(RepoPat \o <<Sub("contents"), OptRest>>, "DELETE", "contents", "write"),
       Rule(RepoPat \o <<Sub("git"), Lit(<<"/">>), Alt(GitKinds), OptRest>>, "GET", "contents", "read"),
       Rule(RepoPat \o <<Sub("git"), Lit(<<"/">>), Alt(GitKinds), OptRest>>, "POST", "contents", "write"),
       Rule(RepoPat \o <<Sub("git"), Lit(<<"/">>), Alt(GitKinds), OptRest>>, "PATCH", "contents", "write"),
       Rule(RepoPat \o <<Sub("branches"), OptRest>>, "GET", "contents", "read"),
       Rule(RepoPat \o <<Sub("commits"), OptRest>>, "GET", "contents", "read"),
       Rule(RepoPat \o <<Sub("compare"), Lit(<<"/">>), Rest>>, "GET", "contents", "read"),
       Rule(RepoPat \o <<Sub("pulls"), Opt(<<Lit(<<"/">>), Num>>)>>, "GET", "pulls", "read"),
       Rule(RepoPat \o <<Sub("pulls")>>, "POST", "pulls", "write"),
       Rule(RepoPat \o <<Sub("pulls"), Lit(<<"/">>), Num>>, "PATCH", "pulls", "write"),
       Rule(RepoPat \o <<Sub("pulls"), Lit(<<"/">>), Num, Sub("merge")>>, "PUT", "pulls", "write"),
       Rule(RepoPat \o <<Sub("pulls"), Lit(<<"/">>), Num, Lit(<<"/">>), Alt(PullSubsRead), OptRest>>, "GET", "pulls", "read"),
       Rule(RepoPat \o <<Sub("pulls"), Lit(<<"/">>), Num, Lit(<<"/">>), Alt(PullSubsWrite), OptRest>>, "POST", "pulls", "write"),
       Rule(RepoPat \o <<Sub("pulls"), Lit(<<"/">>), Num, Lit(<<"/">>), Alt(PullSubsWrite), OptRest>>, "PUT", "pulls", "write"),
       Rule(RepoPat \o <<Sub("pulls"), Lit(<<"/">>), Num, Lit(<<"/">>), Alt(PullSubsWrite), OptRest>>, "DELETE", "pulls", "write"),
       Rule(RepoPat \o <<Sub("issues"), Opt(<<Lit(<<"/">>), Num>>)>>, "GET", "issues", "read"),
       Rule(RepoPat \o <<Sub("issues")>>, "POST", "issues", "write"),
       Rule(RepoPat \o <<Sub("issues"), Lit(<<"/">>), Num>>, "PATCH", "issues", "write"),
       Rule(RepoPat \o <<Sub("issues"), Lit(<<"/">>), Num, Sub("comments"), OptRest>>, "GET", "issues", "read"),
       Rule(RepoPat \o <<Sub("issues"), Lit(<<"/">>), Num, Sub("comments"), OptRest>>, "POST", "issues", "write"),
       Rule(RepoPat \o <<Sub("issues"), Lit(<<"/">>), Num, Sub("labels"), OptRest>>, "GET", "issues", "read"),
       Rule(RepoPat \o <<Sub("issues"), Lit(<<"/">>), Num, Sub("labels"), OptRest>>, "POST", "issues", "write"),
       Rule(RepoPat \o <<Sub("issues"), Lit(<<"/">>), Num, Sub("labels"), OptRest>>, "PUT", "issues", "write"),
       Rule(RepoPat \o <<Sub("issues"), Lit(<<"/">>), Num, Sub("labels"), OptRest>>, "DELETE", "issues", "write"),
       Rule(RepoPat \o <<Sub("issues"), Lit(<<"/">>), Num, Sub("assignees"), OptRest>>, "GET", "issues", "read"),
       Rule(RepoPat \o <<Sub("issues"), Lit(<<"/">>), Num, Sub("assignees"), OptRest>>, "POST", "issues", "write"),
       Rule(RepoPat \o <<Sub("issues"), Lit(<<"/">>), Num, Sub("assignees"), OptRest>>, "DELETE", "issues", "write"),
       Rule(RepoPat \o <<Sub("statuses"), Lit(<<"/">>), Rest>>, "GET", "statuses", "read"),
       Rule(RepoPat \o <<Sub("statuses"), Lit(<<"/">>), Rest>>, "POST", "statuses", "write"),
       Rule(RepoPat \o <<Sub("check-runs"), OptRest>>, "GET", "checks", "read"),
       Rule(RepoPat \o <<Sub("check-runs"), OptRest>>, "POST", "checks", "write"),
       Rule(RepoPat \o <<Sub("check-suites"), OptRest>>, "GET", "checks", "read"),
       Rule(RepoPat \o <<Sub("actions"), OptRest>>, "GET", "actions", "read"),
       Rule(RepoPat \o <<Sub("actions"), Lit(<<"/">>), Alt({"workflows", "runs"}), Lit(<<"/">>), Seg, Sub("dispatches")>>, "POST", "actions", "write"),
       Rule(RepoPat \o <<Sub("releases"), OptRest>>, "GET", "contents", "read"),
       Rule(RepoPat \o <<Sub("releases"), OptRest>>, "POST", "contents", "write"),
       Rule(RepoPat, "GET", "metadata", "read"),
       Rule(<<Lit(<<"/", "user">>)>>, "", "metadata", "read") >>

\* A rule that applies whatever the method of the request.
RuleMatchesAnyMethod(i, method, path) == MatchString(rules[i].pattern, path)

\* The rule at index i applies to (method, path).
RuleMatches(i, method, path) ==
    /\ rules[i].method = "" \/ rules[i].method = method
    /\ MatchString(rules[i].pattern, path)

\* First matching rule in table order, <<"", "">> when none matches.
EndpointScope(method, path) ==
    IF \E i \in 1..Len(rules) : RuleMatches(i, method, path)
    THEN LET i == CHOOSE k \in 1..Len(rules) :
                      /\ RuleMatches(k, method, path)
                      /\ \A j \in 1..(k - 1) : ~RuleMatches(j, method, path)
         IN  <<rules[i].permission, rules[i].level>>
    ELSE <<"", "">>

\* owner/repo of a /repos/{owner}/{repo}/... path, <<>> otherwise.
ExtractRepoFromPath(path) ==
    LET parts == SplitN(TrimPrefix(path, <<"/">>), "/", 4)
    IN  IF Len(parts) < 3 \/ parts[1] # <<"repos">>
        THEN <<>>
        ELSE parts[2] \o <<"/">> \o parts[3]

(***************************************************************************)
(* Program constants.                                                      *)
(***************************************************************************)
\* A nil *time.Time (revoked_at, last_used_at): no instant.
NoTime == -1

\* tokenRefreshSkew = 5 * time.Minute: one tick.
tokenRefreshSkew == 1

\* Prefix for all proxy tokens.
Prefix == <<"ghp_">>

githubAPIBase == <<"https://", "api.github.com">>

\* Service.maxDuration (tokens.max_duration of the configuration), in ticks.
maxDuration == 2

\* expires_in of a refresh response: 28800 s, in ticks.
ExpiresIn == 96

\* 6 * 30 * 24 * time.Hour, in ticks.
RefreshLifetime == 51840

\* The user of the proxy workloads, logged in before the model starts.
UserID == "u1"

\* 10 * time.Minute, the lifetime of an OAuth state nonce, in ticks.
stateTTL == 2

\* SessionDuration = 30 * 24 * time.Hour, in ticks.
SessionDuration == 8640

\* Prefix of generateSessionToken.  No atom of the model is a proper prefix
\* of another one, so the prefix test on atoms is the prefix test on text.
SessionPrefix == <<"ghpr_">>

\* The configured encryption key.
EncryptionKey == "k1"

Some(x) == <<x>>

None == <<>>

(***************************************************************************)
(* State.                                                                  *)
(***************************************************************************)
VARIABLES
    now,            \* time.Now(), in ticks
    workload,       \* the class of traffic agents send in this run
    proxy_tokens,   \* table proxy_tokens: rows in insertion order, id = index
    github_tokens,  \* table github_tokens (the upstream credential vault)
    audit_log,      \* table audit_log: rows in insertion order
    req,            \* the exchange each handler goroutine is serving
    nreq,           \* number of proxied requests accepted so far
    revoked,        \* per token id: number of RevokeProxyToken calls that returned nil
    lastRevoke,     \* argument and result of the latest RevokeProxyToken call
    users,          \* table users: rows in insertion order
    states,         \* Handler.states: OAuth state nonce -> expiry
    sessions,       \* Handler.sessions: session token -> Session
    nonces,         \* per state nonce: when issued, how often presented and accepted
    cb,             \* the callback each OAuth callback goroutine is serving
    api,            \* the latest exchange of the management API and of /auth
    cfg,            \* the configuration the server was started with
    server,         \* where Server.Run stands: serving, stopping, closed or exited
    call,           \* the latest call of a library function: arguments and result
    migrator        \* the migration files, schema_migrations, and the run of ghp migrate

\* The state of the login and management layer (packages auth and api).
webVars == <<users, states, sessions, nonces, cb, api, cfg>>

vars == <<now, workload, proxy_tokens, github_tokens, audit_log, req, nreq, revoked, lastRevoke,
          users, states, sessions, nonces, cb, api, cfg, server, call,
          migrator>>

\* The one migration of the repository, 001_initial; names are kept as the
\* sequences of their digits.
Shipped == {<<0, 0, 1>>}

\* A database on which ghp migrate has run, as Server.Run requires: every
\* migration of the binary is applied and recorded.
Migrated ==
    [files |-> Shipped, applied |-> Shipped, schema |-> <<<<0, 0, 1>>>>, pc |-> "idle",
     pending |-> <<>>, ran |-> <<>>, runs |-> 0]

\* No library call has been made.
NoCall == [fn |-> "", args |-> <<>>, result |-> <<>>]

\* The goroutines net/http runs handlers on.
Handlers == {"h1", "h2"}

(***************************************************************************)
(* Package crypto.                                                         *)
(***************************************************************************)
\* aead.Seal without its dst: the box of the plaintext under key and nonce.
Seal(key, nonce, plaintext) == [key |-> key, nonce |-> nonce, plaintext |-> plaintext]

\* aead.Open: Some(plaintext) when the tag verifies, which it does under the
\* key and the nonce the box was sealed with; None on error.
Open(key, nonce, box) ==
    IF box.key = key /\ box.nonce = nonce THEN Some(box.plaintext) ELSE None

\* An Encrypt that does not prepend the nonce to the box.
EncryptBoxOnly(key, nonce, plaintext) == <<Seal(key, nonce, plaintext)>>

\* Encrypt: the nonce, drawn by the caller, followed by the box (Seal appends
\* the box to its dst, which is the nonce).
Encrypt(key, nonce, plaintext) == <<nonce>> \o <<Seal(key, nonce, plaintext)>>

\* Decrypt: the leading NonceSize bytes are the nonce, the rest is the box;
\* Some(plaintext), or None on error.
Decrypt(key, ciphertext) ==
    IF ciphertext = <<>> \/ Tail(ciphertext) = <<>>
    THEN None
    ELSE Open(key, Head(ciphertext), Head(Tail(ciphertext)))

Nonces == {"n1"}

(***************************************************************************)
(* Scopes (package database, models.go).                                   *)
(***************************************************************************)
\* Key order of encoding/json for map[string]string: sorted keys.
PermOrder == <<"actions", "checks", "contents", "issues", "metadata", "pulls", "statuses">>

\* json.Marshal of a scopes map: the object's members in key order.
MarshalScopes(m) ==
    LET keys == SelectSeq(PermOrder, LAMBDA k : k \in DOMAIN m)
    IN  [i \in 1..Len(keys) |-> <<keys[i], m[keys[i]]>>]

\* json.Unmarshal into Scopes: a later member replaces an earlier one.
ParseScopes(data) ==
    [k \in {data[i][1] : i \in 1..Len(data)} |->
        data[CHOOSE i \in 1..Len(data) :
                /\ data[i][1] = k
                /\ \A j \in (i + 1)..Len(data) : data[j][1] # k][2]]

\* A check that wants the granted level to be the required one.
HasPermissionExact(s, permission, level) ==
    permission \in DOMAIN s /\ s[permission] = level

HasPermission(s, permission, level) ==
    IF permission \notin DOMAIN s
    THEN FALSE
    ELSE IF level = "read"
         THEN s[permission] = "read" \/ s[permission] = "write"
         ELSE s[permission] = level

(***************************************************************************)
(* Persistence (package database, sqlite.go).                              *)
(***************************************************************************)
GetProxyTokenByHash(tokens, hash) ==
    IF \E i \in 1..Len(tokens) : tokens[i].token_hash = hash
    THEN Some(tokens[CHOOSE i \in 1..Len(tokens) : tokens[i].token_hash = hash])
    ELSE None

GetGitHubTokenByID(creds, id) ==
    IF \E i \in 1..Len(creds) : creds[i].id = id
    THEN Some(creds[CHOOSE i \in 1..Len(creds) : creds[i].id = id])
    ELSE None

GetGitHubToken(creds, userID) ==
    IF \E i \in 1..Len(creds) : creds[i].user_id = userID
    THEN Some(creds[CHOOSE i \in 1..Len(creds) : creds[i].user_id = userID])
    ELSE None

\* Mutant of UpsertGitHubToken: a plain INSERT, without ON CONFLICT.
UpsertGitHubTokenInsertOnly(creds, gt) == Append(creds, gt)

\* An upsert that replaces the whole row of the user, id included (INSERT OR
\* REPLACE).
UpsertGitHubTokenReplace(creds, gt) ==
    IF \E i \in 1..Len(creds) : creds[i].user_id = gt.user_id
    THEN [i \in 1..Len(creds) |-> IF creds[i].user_id = gt.user_id THEN gt ELSE creds[i]]
    ELSE Append(creds, gt)

\* INSERT ... ON CONFLICT(user_id) DO UPDATE: the row of the user keeps its id.
UpsertGitHubToken(creds, gt) ==
    IF \E i \in 1..Len(creds) : creds[i].user_id = gt.user_id
    THEN [i \in 1..Len(creds) |->
            IF creds[i].user_id = gt.user_id
            THEN [creds[i] EXCEPT !.access_token = gt.access_token,
                                  !.refresh_token = gt.refresh_token,
                                  !.access_token_expires_at = gt.access_token_expires_at,
                                  !.refresh_token_expires_at = gt.refresh_token_expires_at]
            ELSE creds[i]]
    ELSE Append(creds, gt)

\* INSERT INTO proxy_tokens: ok is FALSE when token_hash is already there.
CreateProxyToken(tokens, token) ==
    IF \E i \in 1..Len(tokens) : tokens[i].token_hash = token.token_hash
    THEN [ok |-> FALSE, tokens |-> tokens]
    ELSE [ok |-> TRUE,
          tokens |-> Append(tokens, [token EXCEPT !.id = Len(tokens) + 1,
                                                  !.request_count = 0])]

\* Mutant of RevokeProxyToken: the update without "AND revoked_at IS NULL".
RevokeProxyTokenAnyRow(tokens, id, t) ==
    IF id \in 1..Len(tokens)
    THEN [ok |-> TRUE, tokens |-> [tokens EXCEPT ![id].revoked_at = t]]
    ELSE [ok |-> FALSE, tokens |-> tokens]

\* UPDATE proxy_tokens SET revoked_at = ? WHERE id = ? AND revoked_at IS NULL;
\* ok is FALSE (an error) when no row was affected.
RevokeProxyToken(tokens, id, t) ==
    IF id \in 1..Len(tokens) /\ tokens[id].revoked_at = NoTime
    THEN [ok |-> TRUE, tokens |-> [tokens EXCEPT ![id].revoked_at = t]]
    ELSE [ok |-> FALSE, tokens |-> tokens]

\* An UpdateProxyTokenUsage that writes a count instead of adding to the
\* stored one.
UpdateProxyTokenUsageOnce(tokens, id, t) ==
    [i \in 1..Len(tokens) |->
        IF i = id
        THEN [tokens[i] EXCEPT !.last_used_at = t, !.request_count = 1]
        ELSE tokens[i]]

\* UPDATE proxy_tokens SET last_used_at = ?, request_count = request_count + 1
\* WHERE id = ?: one statement, atomic in the store.

UpdateProxyTokenUsage(tokens, id, t) ==
    [i \in 1..Len(tokens) |->
        IF i = id
        THEN [tokens[i] EXCEPT !.last_used_at = t, !.request_count = @ + 1]
        ELSE tokens[i]]

CreateAuditEntry(log, entry) == Append(log, entry)

(***************************************************************************)
(* Token service (package token).                                          *)
(***************************************************************************)
\* A hash function that returns its input.
HashPlain(token) == token

\* SHA-256 hex digest: one atom for each text, injective, and no part of it
\* is the text.
Hash(token) == <<"sha256(" \o Text(token) \o ")">>

\* The base62 body generateToken can draw for the i-th token.
TokenBody(i) == "T" \o ToString(i)

TokenBodies == {TokenBody(i) : i \in 1..MaxTokens}

\* Mutant of Resolve: the revoked_at check is missing.
ResolveIgnoringRevoked(tokens, plaintext, t) ==
    IF ~HasPrefix(plaintext, Prefix)
    THEN [pt |-> None, err |-> "invalid token prefix"]
    ELSE LET pt == GetProxyTokenByHash(tokens, Hash(plaintext))
         IN  IF pt = None
             THEN [pt |-> None, err |-> ""]
             ELSE IF t > pt[1].expires_at
                  THEN [pt |-> None, err |-> "token has expired"]
                  ELSE [pt |-> pt, err |-> ""]

\* Resolve at instant t: the row, or nothing with an error text ("" for the
\* nil, nil of an unknown hash).
Resolve(tokens, plaintext, t) ==
    IF ~HasPrefix(plaintext, Prefix)
    THEN [pt |-> None, err |-> "invalid token prefix"]
    ELSE LET pt == GetProxyTokenByHash(tokens, Hash(plaintext))
         IN  IF pt = None
             THEN [pt |-> None, err |-> ""]
             ELSE IF pt[1].revoked_at # NoTime
                  THEN [pt |-> None, err |-> "token has been revoked"]
                  ELSE IF t > pt[1].expires_at
                       THEN [pt |-> None, err |-> "token has expired"]
                       ELSE [pt |-> pt, err |-> ""]

\* A Service.Create that puts no upper limit on the duration.
CreateErrorNoMaximum(r) ==
    IF r.Repository = <<>> THEN "repository is required"
    ELSE IF DOMAIN r.Scopes = {} THEN "at least one scope is required"
    ELSE IF r.Duration <= 0 THEN "duration must be positive"
    ELSE ""

\* Why Service.Create rejects a request, "" when it does not.
CreateError(r) ==
    IF r.Repository = <<>> THEN "repository is required"
    ELSE IF DOMAIN r.Scopes = {} THEN "at least one scope is required"
    ELSE IF r.Duration <= 0 THEN "duration must be positive"
    ELSE IF r.Duration > maxDuration THEN "duration exceeds maximum"
    ELSE ""

\* plaintext[:8]: the four characters of Prefix and the first four of the
\* body.
TokenPrefix(plaintext) == <<plaintext[1], plaintext[2] \o "[:4]">>

\* The row Service.Create hands to the store for plaintext at instant t.
NewProxyToken(r, plaintext, t) ==
    [id |-> 0,
     token_hash |-> Hash(plaintext),
     token_prefix |-> TokenPrefix(plaintext),
     user_id |-> r.UserID,
     github_token_id |-> r.GitHubTokenID,
     repository |-> r.Repository,
     scopes |-> MarshalScopes(r.Scopes),
     session_id |-> r.SessionID,
     expires_at |-> t + r.Duration,
     revoked_at |-> NoTime,
     last_used_at |-> NoTime,
     request_count |-> 0]

(***************************************************************************)
(* Proxy handler (package proxy, proxy.go) and routing (package server).   *)
(***************************************************************************)
HeaderNames == {"Authorization", "Content-Type", "Accept", "User-Agent", "Cookie"}

\* Mutant of extractToken: the value is not tested for the ghp_ prefix.
extractTokenAnyValue(auth) ==
    IF auth = <<>>
    THEN <<>>
    ELSE LET parts == SplitN(auth, " ", 2)
         IN  IF Len(parts) # 2
             THEN <<>>
             ELSE IF ToLower(parts[1]) \in {<<"token">>, <<"bearer">>}
                  THEN parts[2]
                  ELSE <<>>

\* The ghp_ token of an Authorization header value, <<>> when there is none.
extractToken(auth) ==
    IF auth = <<>>
    THEN <<>>
    ELSE LET parts == SplitN(auth, " ", 2)
         IN  IF Len(parts) # 2
             THEN <<>>
             ELSE IF /\ ToLower(parts[1]) \in {<<"token">>, <<"bearer">>}
                     /\ HasPrefix(parts[2], Prefix)
                  THEN parts[2]
                  ELSE <<>>

\* net.SplitHostPort: the host of host:port; the input itself on error.
HostOnly(host) ==
    IF IndexOf(host, ":") > 0 THEN SubSeq(host, 1, IndexOf(host, ":") - 1) ELSE host

\* path.Clean leaves the path alone: no empty, "." or ".." segment.
IsCleanPath(path) ==
    /\ \A i \in 1..(Len(path) - 1) : ~(path[i] = "/" /\ path[i + 1] = "/")
    /\ \A i \in 1..Len(path) : path[i] \notin {".", ".."}

\* Where http.ServeMux sends a path: the proxy patterns are "/api/v3/" (a
\* subtree) and "/api/graphql"; an unclean path is answered with a redirect.
MuxTarget(path) ==
    IF ~IsCleanPath(path) THEN "redirect"
    ELSE IF path = <<"/", "api", "/", "v3">> THEN "redirect"
    ELSE IF HasPrefix(path, <<"/", "api", "/", "v3", "/">>) THEN "proxy"
    ELSE IF path = <<"/", "api", "/", "graphql">> THEN "proxy"
    ELSE "other"

hostRoutingHandler(host, path) ==
    IF HostOnly(host) = <<"api.github.com">> THEN "proxy" ELSE MuxTarget(path)

\* The upstream path of a REST request: /api/v3 stripped, "/" for nothing.
ApiPath(path) ==
    LET p == IF HasPrefix(path, <<"/", "api", "/", "v3">>)
             THEN TrimPrefix(path, <<"/", "api", "/", "v3">>)
             ELSE path
    IN  IF p = <<>> THEN <<"/">> ELSE p

\* The request takes the GraphQL branch of ServeHTTP.
IsGraphQL(path) ==
    /\ ~HasPrefix(path, <<"/", "api", "/", "v3">>)
    /\ path = <<"/", "api", "/", "graphql">> \/ path = <<"/", "graphql">>

\* The host of an absolute URL: the authority up to the first "/" or "?".
URLHost(url) ==
    LET rest == Drop(url, 1)
        stops == {i \in 1..Len(rest) : rest[i] \in {"/", "?"}}
    IN  IF stops = {}
        THEN rest
        ELSE SubSeq(rest, 1, (CHOOSE i \in stops : \A j \in stops : i <= j) - 1)

CopiedHeaders == {"Content-Type", "Accept", "User-Agent"}

\* Mutant of OutboundHeader: the inbound Authorization is passed on.
OutboundHeaderPassAuth(header, githubToken) ==
    [n \in HeaderNames |->
        IF n = "Authorization" THEN header[n]
        ELSE IF n \in CopiedHeaders THEN header[n]
        ELSE <<>>]

\* The header of the outbound request forwardRequest builds.
OutboundHeader(header, githubToken) ==
    [n \in HeaderNames |->
        IF n = "Authorization" THEN <<"Bearer", " ">> \o githubToken
        ELSE IF n \in CopiedHeaders THEN header[n]
        ELSE <<>>]

\* The outbound request forwardRequest builds for path.
Outbound(r, path, githubToken) ==
    [method |-> r.method,
     url |-> githubAPIBase \o path \o (IF r.query # <<>> THEN <<"?">> \o r.query ELSE <<>>),
     header |-> OutboundHeader(r.header, githubToken)]

(***************************************************************************)
(* Inbound traffic.                                                        *)
(***************************************************************************)
\* "/a/b/c" for <<"a", "b", "c">>.
Path(segs) == [i \in 1..(2 * Len(segs)) |-> IF i % 2 = 1 THEN "/" ELSE segs[i \div 2]]

V3 == <<"/", "api", "/", "v3">>

PlainHeaders(auth) ==
    [n \in HeaderNames |-> IF n = "Authorization" THEN auth ELSE <<>>]

RichHeaders(auth) ==
    [n \in HeaderNames |->
        CASE n = "Authorization" -> auth
          [] n = "Content-Type" -> <<"application/json">>
          [] n = "Accept" -> <<"application/vnd.github+json">>
          [] n = "User-Agent" -> <<"gh-cli">>
          [] n = "Cookie" -> <<"ghp_session=", "S1">>]

Request(method, host, path, query, header) ==
    [method |-> method, host |-> host, path |-> path, query |-> query, header |-> header]

ProxyHost == <<"proxy.local">>

GitHubHost == <<"api.github.com">>

\* The bearer of the first token Create may issue.
Bearer1 == <<"token", " ", "ghp_", TokenBody(1)>>

\* Authorization header values an agent may send.
AuthValues ==
    { <<>>,
      Bearer1,
      <<"Bearer", " ", "ghp_", TokenBody(1)>>,
      <<"BEARER", " ", "ghp_", TokenBody(1)>>,
      <<"Basic", " ", "ghp_", TokenBody(1)>>,
      <<"ghp_", TokenBody(1)>>,
      <<"Bearer", " ", " ", "ghp_", TokenBody(1)>>,
      <<"Bearer", " ", "gho_", "A1">>,
      <<"Bearer", " ", "ghpr_", "S1">>,
      <<"Bearer", " ", "ghp_", "unknown">> }

\* Upstream REST paths an agent may ask for.
RestPaths ==
    { Path(<<"repos", "acme", "widget">>),
      Path(<<"repos", "Acme", "Widget", "pulls">>),
      Path(<<"repos", "other", "widget", "issues">>),
      Path(<<"repos", "other", "other">>),
      Path(<<"repos", "acme", "widget", "issues">>),
      Path(<<"repos", "acme", "widget", "contents", "README.md">>),
      Path(<<"repos", "acme", "widget", "git", "refs", "heads">>),
      Path(<<"repos", "acme", "widget", "pulls", "1", "merge">>),
      Path(<<"user">>),
      Path(<<"unknown", "path">>) }

Methods == {"GET", "POST", "PUT", "PATCH", "DELETE"}

\* Paths sent with Host: api.github.com, where every path reaches the proxy.
VirtualHostPaths ==
    { Path(<<"repos", "acme", "widget", "pulls">>),
      Path(<<"repos", "other", "other">>),
      Path(<<"graphql">>),
      Path(<<"api", "graphql">>),
      V3,
      V3 \o Path(<<"user">>),
      V3 \o <<".evil.example">> \o Path(<<"x">>),
      <<"/">> \o Path(<<"repos", "other", "other", "pulls">>) }

\* Paths sent to the proxy's own host name.
MuxPaths ==
    { V3 \o <<"/">>,
      V3,
      V3 \o Path(<<"repos", "acme", "widget", "pulls">>),
      V3 \o <<"/">> \o Path(<<"repos", "other", "other", "pulls">>),
      Path(<<"api", "graphql">>),
      Path(<<"graphql">>),
      Path(<<"api", "tokens">>) }

\* A run exercises one suite of requests: authentication (auth), the
\* repository and permission checks (scope), routing and headers (route), the
\* write rows of the table of scopes (table), or two requests of one user
\* handled at the same time (race).
Workloads == {"auth", "scope", "route", "table", "race"}

\* Sub-resources of an issue and of a pull request in the table of scopes.
IssueSubs == {"comments", "labels", "assignees"}

PullSubs == {"files", "commits", "reviews", "comments", "requested_reviewers"}

CheckKinds == {"check-runs", "check-suites"}

\* Upstream paths of the write rows of the table.
TablePaths ==
    { Path(<<"repos", "acme", "widget", "issues", "1", sub>>) : sub \in IssueSubs }
    \cup { Path(<<"repos", "acme", "widget", "pulls", "1", sub>>) : sub \in PullSubs }
    \cup { Path(<<"repos", "acme", "widget", kind>>) : kind \in CheckKinds }

\* The requests of a workload.
Inputs(w) ==
    CASE w = "auth" ->
            { Request("GET", ProxyHost, p, <<>>, PlainHeaders(a)) :
                 a \in AuthValues,
                 p \in {V3 \o Path(<<"repos", "acme", "widget", "contents", "README.md">>),
                        Path(<<"api", "graphql">>)} }
      [] w = "scope" ->
            { Request(m, ProxyHost, V3 \o p, <<>>, PlainHeaders(Bearer1)) :
                 m \in Methods, p \in RestPaths }
      [] w = "race" ->
            { Request("GET", ProxyHost, Path(<<"api", "graphql">>), <<>>, PlainHeaders(Bearer1)) }
      [] w = "table" ->
            { Request(m, ProxyHost, V3 \o p, <<>>, PlainHeaders(Bearer1)) :
                 m \in {"POST", "PUT", "DELETE"}, p \in TablePaths }
      [] w = "route" ->
            { Request(m, GitHubHost, p, <<>>, PlainHeaders(Bearer1)) :
                 m \in {"GET", "POST"}, p \in VirtualHostPaths }
            \cup
            { Request("GET", GitHubHost \o <<":", "443">>, p, <<"page=2">>, RichHeaders(Bearer1)) :
                 p \in VirtualHostPaths }
            \cup
            { Request("GET", ProxyHost, p, <<"page=2">>, RichHeaders(Bearer1)) :
                 p \in MuxPaths }
      [] w = "refresh" ->
            { Request("GET", ProxyHost,
                      V3 \o Path(<<"repos", "acme", "widget", "contents", "README.md">>),
                      <<>>, PlainHeaders(Bearer1)) }
      [] OTHER -> {}

\* What POST /api/tokens may ask Service.Create for.
CreateRequests ==
    { [UserID |-> UserID, GitHubTokenID |-> "g1", Repository |-> repo,
       Scopes |-> sc, Duration |-> d, SessionID |-> "s1"] :
         repo \in {<<"acme", "/", "widget">>, <<>>},
         sc \in {[contents |-> "read", issues |-> "read"],
                 [contents |-> "read", pulls |-> "write"],
                 <<>>},
         d \in 0..(maxDuration + 1) }

\* Answers of GitHub's OAuth token endpoint to a refresh.
RefreshResponses ==
    { [access_token |-> <<"gho_", "A2">>, refresh_token |-> <<"ghr_", "R2">>,
       expires_in |-> ExpiresIn],
      [access_token |-> <<"gho_", "A3">>, refresh_token |-> <<"ghr_", "R3">>,
       expires_in |-> ExpiresIn] }

\* The answers to a refresh in a run of workload w.  In the refresh workload
\* the token endpoint may also answer without expires_in, which
\* tokenRefreshResponse decodes as 0.
RefreshInputs(w) ==
    IF w = "refresh"
    THEN RefreshResponses
         \cup { [access_token |-> <<"gho_", "A4">>, refresh_token |-> <<"ghr_", "R4">>,
                 expires_in |-> 0] }
    ELSE RefreshResponses

\* Status codes api.github.com answers with; 0 stands for a transport error.
UpstreamOutcomes == {200, 404, 0}

IdleRequest ==
    [pc |-> "idle", rid |-> 0, method |-> "", host |-> <<>>, path |-> <<>>, query |-> <<>>,
     header |-> PlainHeaders(<<>>), branch |-> "", pt |-> None, apiPath |-> <<>>,
     repo |-> <<>>, gt |-> None, resp |-> None, githubToken |-> <<>>, status |-> 0,
     message |-> "", out |-> None, loads |-> 0, refreshes |-> 0, usages |-> 0,
     dispatches |-> 0, upstream |-> None, cancelled |-> FALSE, failed |-> {}]

NewRequest(rid, in) ==
    [IdleRequest EXCEPT !.pc = "serve", !.rid = rid, !.method = in.method,
                        !.host = in.host, !.path = in.path, !.query = in.query,
                        !.header = in.header]

(***************************************************************************)
(* ServeHTTP, step by step.  A step ends at each call that reads or writes *)
(* the store or the network, where other goroutines may run in between.    *)
(***************************************************************************)
\* writeError: the status and message of the response, end of the exchange.
Answered(r, status, message) ==
    [r EXCEPT !.pc = "done", !.status = status, !.message = message]

\* The audit row logRequest inserts.
AuditEntry(r, status, action) ==
    [rid |-> r.rid,
     user_id |-> r.pt[1].user_id,
     proxy_token_id |-> r.pt[1].id,
     action |-> action,
     method |-> r.method,
     path |-> r.apiPath,
     repository |-> r.repo,
     status_code |-> status,
     session_id |-> r.pt[1].session_id]

\* Mutant of RepoDenied: only the repository name is compared, not the owner.
RepoDeniedNameOnly(repo, pt) ==
    /\ repo # <<>>
    /\ ~EqualFold(SubSeq(repo, 3, Len(repo)), SubSeq(pt.repository, 3, Len(pt.repository)))

\* The repository check of ServeHTTP fails.
RepoDenied(repo, pt) ==
    /\ repo # <<>>
    /\ ~EqualFold(repo, pt.repository)

\* Mutant of ScopeDenied: any scope entry for the permission is enough.
ScopeDeniedAnyLevel(method, apiPath, pt) ==
    LET scope == EndpointScope(method, apiPath)
    IN  /\ scope[1] # ""
        /\ scope[1] # "metadata"
        /\ scope[1] \notin DOMAIN ParseScopes(pt.scopes)

\* Mutant of ScopeDenied: an endpoint without a rule is refused.
ScopeDeniedUnknown(method, apiPath, pt) ==
    LET scope == EndpointScope(method, apiPath)
    IN  /\ scope[1] # "metadata"
        /\ \/ scope[1] = ""
           \/ ~HasPermission(ParseScopes(pt.scopes), scope[1], scope[2])

\* The permission check of ServeHTTP fails.
ScopeDenied(method, apiPath, pt) ==
    LET scope == EndpointScope(method, apiPath)
    IN  /\ scope[1] # ""
        /\ scope[1] # "metadata"
        /\ ~HasPermission(ParseScopes(pt.scopes), scope[1], scope[2])

\* Mutant of IsStale: a token that expires in exactly the skew is refreshed too.
IsStaleInclusive(gt, t) == gt.access_token_expires_at - t <= tokenRefreshSkew

\* The access token expires soon: time.Until(expiry) < tokenRefreshSkew.
IsStale(gt, t) == gt.access_token_expires_at - t < tokenRefreshSkew

\* The tail of getGitHubToken: decrypt the stored access token and go on to
\* the dispatch, or answer 500.
WithStoredToken(r, gt) ==
    LET plaintext == Decrypt(EncryptionKey, gt.access_token)
    IN  IF plaintext = None
        THEN Answered(r, 500, "Failed to retrieve GitHub credentials")
        ELSE [r EXCEPT !.pc = "dispatch", !.githubToken = plaintext[1]]

\* The handlers that take requests: one at a time, but for the race workload.
\* The database handle is open until the deferred store.Close() of Server.Run.
StoreOpen == server \in {"serving", "stopping"}

\* A store call of the handler returns an error: the context of the request
\* is cancelled, or the database is closed (sql: database is closed).
StoreFails(r) == r.cancelled \/ ~StoreOpen

Pool(w) == IF w = "race" THEN Handlers ELSE {"h1"}

\* hostRoutingHandler hands a request to the proxy handler.
Accept(h, in) ==
    /\ req[h].pc \in {"idle", "done"}
    /\ h \in Pool(workload)
    /\ server = "serving"
    /\ nreq < MaxRequests * Cardinality(Pool(workload))
    /\ hostRoutingHandler(in.host, in.path) = "proxy"
    /\ nreq' = nreq + 1
    /\ req' = [req EXCEPT ![h] = NewRequest(nreq + 1, in)]
    /\ UNCHANGED <<now, workload, server, call, migrator, webVars, proxy_tokens, github_tokens, audit_log, revoked, lastRevoke>>

\* ServeHTTP up to the end of Resolve, and the choice of the branch.
Serve(h) ==
    LET r == req[h]
        ghpToken == extractToken(r.header["Authorization"])
        res == IF StoreFails(r)
               THEN [pt |-> None, err |-> "looking up token: context canceled"]
               ELSE Resolve(proxy_tokens, ghpToken, now)
    IN  /\ r.pc = "serve"
        /\ req' = [req EXCEPT ![h] =
              IF ghpToken = <<>>
              THEN Answered(r, 401, "Missing or invalid Authorization header")
              ELSE IF res.err # ""
              THEN Answered(r, 401, res.err)
              ELSE IF res.pt = None
              THEN Answered(r, 401, "Invalid token")
              ELSE IF IsGraphQL(r.path)
              THEN [r EXCEPT !.pc = "load", !.branch = "graphql", !.pt = res.pt,
                             !.apiPath = <<"/", "graphql">>,
                             !.repo = res.pt[1].repository]
              ELSE [r EXCEPT !.pc = "check", !.branch = "rest", !.pt = res.pt,
                             !.apiPath = ApiPath(r.path),
                             !.repo = ExtractRepoFromPath(ApiPath(r.path))]]
        /\ UNCHANGED <<now, workload, server, call, migrator, webVars, proxy_tokens, github_tokens, audit_log, nreq, revoked, lastRevoke>>

\* The repository check and the permission check of the REST branch.
Check(h) ==
    LET r == req[h]
    IN  /\ r.pc = "check"
        /\ IF RepoDenied(r.repo, r.pt[1]) \/ ScopeDenied(r.method, r.apiPath, r.pt[1])
           THEN /\ req' = [req EXCEPT ![h] = Answered(r, 403, "scope denied")]
                /\ audit_log' = IF StoreFails(r)
                                THEN audit_log
                                ELSE CreateAuditEntry(audit_log,
                                                      AuditEntry(r, 403, "proxy_scope_denied"))
           ELSE /\ req' = [req EXCEPT ![h].pc = "load"]
                /\ UNCHANGED audit_log
        /\ UNCHANGED <<now, workload, server, call, migrator, webVars, proxy_tokens, github_tokens, nreq, revoked, lastRevoke>>

\* getGitHubToken: load the credential row; decide whether to refresh.
Load(h) ==
    LET r == req[h]
        gt == IF StoreFails(r)
              THEN None
              ELSE GetGitHubTokenByID(github_tokens, r.pt[1].github_token_id)
        r1 == [r EXCEPT !.loads = @ + 1]
    IN  /\ r.pc = "load"
        /\ req' = [req EXCEPT ![h] =
              IF gt = None
              THEN Answered(r1, 500, "Failed to retrieve GitHub credentials")
              ELSE IF IsStale(gt[1], now)
              THEN [r1 EXCEPT !.pc = "refresh", !.gt = gt]
              ELSE WithStoredToken([r1 EXCEPT !.gt = gt], gt[1])]
        /\ UNCHANGED <<now, workload, server, call, migrator, webVars, proxy_tokens, github_tokens, audit_log, nreq, revoked, lastRevoke>>

\* refreshGitHubToken up to the answer of the token endpoint.  A failure
\* falls back to the stored access token.
RefreshFails(h) ==
    LET r == req[h]
        r1 == [r EXCEPT !.refreshes = @ + 1]
    IN  /\ r.pc = "refresh"
        /\ req' = [req EXCEPT ![h] = WithStoredToken(r1, r.gt[1])]
        /\ UNCHANGED <<now, workload, server, call, migrator, webVars, proxy_tokens, github_tokens, audit_log, nreq, revoked, lastRevoke>>

RefreshAnswered(h, resp) ==
    LET r == req[h]
    IN  /\ r.pc = "refresh"
        /\ ~r.cancelled
        /\ Decrypt(EncryptionKey, r.gt[1].refresh_token) # None
        /\ req' = [req EXCEPT ![h] = [r EXCEPT !.pc = "persist", !.refreshes = @ + 1,
                                               !.resp = Some(resp)]]
        /\ UNCHANGED <<now, workload, server, call, migrator, webVars, proxy_tokens, github_tokens, audit_log, nreq, revoked, lastRevoke>>

\* The loaded row as refreshGitHubToken rewrites it, in place, before the
\* upsert: the new pair encrypted, both expiries counted from instant t.
Refreshed(gt, resp, n1, n2, t) ==
    [gt EXCEPT
        !.access_token = Encrypt(EncryptionKey, n1, resp.access_token),
        !.refresh_token = Encrypt(EncryptionKey, n2, resp.refresh_token),
        !.access_token_expires_at = t + resp.expires_in,
        !.refresh_token_expires_at = t + RefreshLifetime]

\* refreshGitHubToken from the encryption of the new pair to its return.  The
\* upsert fails when the request's context is cancelled; getGitHubToken then
\* decrypts the access token of the row it holds, which is rewritten already.
Persist(h, n1, n2) ==
    LET r == req[h]
        resp == r.resp[1]
        gt == Refreshed(r.gt[1], resp, n1, n2, now)
    IN  /\ r.pc = "persist"
        /\ IF StoreFails(r)
           THEN /\ UNCHANGED github_tokens
                /\ req' = [req EXCEPT ![h] = WithStoredToken([r EXCEPT !.gt = Some(gt)], gt)]
           ELSE /\ github_tokens' = UpsertGitHubToken(github_tokens, gt)
                /\ req' = [req EXCEPT ![h] = [r EXCEPT !.pc = "dispatch", !.gt = Some(gt),
                                                       !.githubToken = resp.access_token]]
        /\ UNCHANGED <<now, workload, server, call, migrator, webVars, proxy_tokens, audit_log, nreq, revoked, lastRevoke>>

\* A forwardRequest that answers a transport error as an internal error.
ForwardStatusInternal(outcome) == IF outcome = 0 THEN 500 ELSE outcome

\* The status forwardRequest writes and returns: http.StatusBadGateway when
\* client.Do failed, else the status of the upstream response.
ForwardStatus(outcome) == IF outcome = 0 THEN 502 ELSE outcome

\* forwardRequest: one outbound request; the upstream status is mirrored, a
\* transport error is answered 502.  With the context cancelled client.Do
\* returns the error before anything is sent.  dispatches counts the calls of
\* client.Do and upstream keeps what the call returned, 0 for an error.
Dispatch(h, outcome) ==
    LET r == req[h]
    IN  /\ r.pc = "dispatch"
        /\ r.cancelled => outcome = 0
        /\ req' = [req EXCEPT ![h] =
              [r EXCEPT !.pc = "usage",
                        !.out = IF r.cancelled
                                THEN None
                                ELSE Some(Outbound(r, r.apiPath, r.githubToken)),
                        !.dispatches = @ + 1,
                        !.upstream = Some(outcome),
                        !.status = ForwardStatus(outcome)]]
        /\ UNCHANGED <<now, workload, server, call, migrator, webVars, proxy_tokens, github_tokens, audit_log, nreq, revoked, lastRevoke>>

\* A handler that counts a request only when GitHub answered it.
RecordUsageOfAnswered(h) ==
    LET r == req[h]
        counted == ~StoreFails(r) /\ r.upstream # Some(0)
    IN  /\ r.pc = "usage"
        /\ proxy_tokens' = IF counted
                           THEN UpdateProxyTokenUsage(proxy_tokens, r.pt[1].id, now)
                           ELSE proxy_tokens
        /\ req' = [req EXCEPT ![h] = [r EXCEPT !.pc = "audit",
                                               !.usages = IF counted THEN @ + 1 ELSE @]]
        /\ UNCHANGED <<now, workload, server, call, migrator, webVars, github_tokens, audit_log, nreq, revoked, lastRevoke>>

\* tokenService.RecordUsage after the response; the error of a cancelled
\* context is logged only.
RecordUsage(h) ==
    LET r == req[h]
    IN  /\ r.pc = "usage"
        /\ proxy_tokens' = IF StoreFails(r)
                           THEN proxy_tokens
                           ELSE UpdateProxyTokenUsage(proxy_tokens, r.pt[1].id, now)
        /\ req' = [req EXCEPT ![h] = [r EXCEPT !.pc = "audit",
                                               !.usages = IF StoreFails(r) THEN @ ELSE @ + 1]]
        /\ UNCHANGED <<now, workload, server, call, migrator, webVars, github_tokens, audit_log, nreq, revoked, lastRevoke>>

\* logRequest of a forwarded request; the error of a cancelled context is
\* logged only.
LogRequest(h) ==
    LET r == req[h]
    IN  /\ r.pc = "audit"
        /\ audit_log' = IF StoreFails(r)
                        THEN audit_log
                        ELSE CreateAuditEntry(audit_log, AuditEntry(r, r.status, "proxy_request"))
        /\ req' = [req EXCEPT ![h].pc = "done"]
        /\ UNCHANGED <<now, workload, server, call, migrator, webVars, proxy_tokens, github_tokens, nreq, revoked, lastRevoke>>

(***************************************************************************)
(* Login and sessions (package auth) and the users table.                  *)
(***************************************************************************)
\* A map with key k bound to v, and a map without key k.
Put(m, k, v) == [x \in DOMAIN m \cup {k} |-> IF x = k THEN v ELSE m[x]]

Delete(m, k) == [x \in DOMAIN m \ {k} |-> m[x]]

\* admins of the configuration.
Admins == {<<"alice">>}

\* config.Defaults: dev_mode is not set, so it is false, and
\* tokens.default_duration is 24 hours.  tokens.max_duration is maxDuration
\* in every configuration here.
Defaults == [DevMode |-> FALSE, DefaultDuration |-> 288]

\* The configurations a run of workload w is started with.
Configs(w) ==
    CASE w = "session" -> {Defaults, [Defaults EXCEPT !.DevMode = TRUE]}
      [] w = "create" -> {Defaults, [Defaults EXCEPT !.DefaultDuration = 1]}
      [] w = "testlogin" -> {[Defaults EXCEPT !.DevMode = TRUE]}
      [] OTHER -> {Defaults}

\* A RegisterRoutes that registers /auth/test-login whatever dev_mode says.
AuthRoutesAlways(c) ==
    { <<"GET", "/auth/github">>, <<"GET", "/auth/github/callback">>,
      <<"POST", "/auth/logout">>, <<"GET", "/auth/status">>, <<"POST", "/auth/test-login">> }

\* Handler.RegisterRoutes: the patterns package auth registers with the mux.
AuthRoutes(c) ==
    { <<"GET", "/auth/github">>, <<"GET", "/auth/github/callback">>,
      <<"POST", "/auth/logout">>, <<"GET", "/auth/status">> }
    \cup (IF c.DevMode THEN {<<"POST", "/auth/test-login">>} ELSE {})

\* Config.IsAdmin: strings.EqualFold against every entry of the allowlist.
IsAdmin(username) == \E admin \in Admins : EqualFold(admin, username)

\* GitHub accounts (the numeric id of a profile) and the logins an account
\* may carry when it signs in; an account can be renamed between two logins.
Accounts == {1, 2}

Logins == {<<"Alice">>, <<"bob">>}

\* An int64, kept as <<high, low>> with value high * 10^6 + low, since the
\* values of the model do not fit the integers of the checker.
Int64(n) == <<n \div 1000000, n % 1000000>>

\* v * m + c in int64, for values below 2^63: the user names of the model have
\* at most eight runes, and the sum over eight runes stays below 2^47.
MulAdd(v, m, c) ==
    LET low == Int64(v[2] * m + c)
    IN  <<v[1] * m + low[1], low[2]>>

\* The profile GET /user answers with; the e-mail address of an account
\* changes with its login.
Profile(id, login) == [id |-> Int64(id), login |-> login, email |-> ToLower(login) \o <<"@", "example.com">>]

Profiles == {Profile(id, login) : id \in Accounts, login \in Logins}

\* A database.User as a handler fills it in before the upsert.
NewUser(githubID, username, email, role) ==
    [id |-> "", github_id |-> githubID, github_username |-> username, github_email |-> email,
     role |-> role, created_at |-> NoTime, updated_at |-> NoTime]

\* An upsert keyed by the username instead of github_id.
UpsertUserByName(tbl, user, t) ==
    IF \E i \in 1..Len(tbl) : tbl[i].github_username = user.github_username
    THEN LET i == CHOOSE j \in 1..Len(tbl) : tbl[j].github_username = user.github_username
         IN  [users |-> [tbl EXCEPT ![i].github_email = user.github_email, ![i].updated_at = t],
              user |-> [user EXCEPT !.id = tbl[i].id, !.role = tbl[i].role,
                                    !.created_at = tbl[i].created_at, !.updated_at = t]]
    ELSE LET id == "u" \o ToString(Len(tbl) + 1)
         IN  [users |-> Append(tbl, [user EXCEPT !.id = id, !.created_at = t, !.updated_at = t]),
              user |-> [user EXCEPT !.id = id, !.created_at = t, !.updated_at = t]]

\* INSERT INTO users ... ON CONFLICT(github_id) DO UPDATE SET github_username,
\* github_email, updated_at, at instant t, followed by the re-read of id,
\* role, created_at and updated_at into the caller's struct.  The result is
\* the table and the struct after the call.
UpsertUser(tbl, user, t) ==
    IF \E i \in 1..Len(tbl) : tbl[i].github_id = user.github_id
    THEN LET i == CHOOSE j \in 1..Len(tbl) : tbl[j].github_id = user.github_id
         IN  [users |-> [tbl EXCEPT ![i].github_username = user.github_username,
                                    ![i].github_email = user.github_email,
                                    ![i].updated_at = t],
              user |-> [user EXCEPT !.id = tbl[i].id, !.role = tbl[i].role,
                                    !.created_at = tbl[i].created_at, !.updated_at = t]]
    ELSE LET id == "u" \o ToString(Len(tbl) + 1)
         IN  [users |-> Append(tbl, [user EXCEPT !.id = id, !.created_at = t, !.updated_at = t]),
              user |-> [user EXCEPT !.id = id, !.created_at = t, !.updated_at = t]]

\* SELECT ... FROM users ORDER BY created_at.
ListUsers(tbl) == tbl

\* The state nonce generateState draws for the i-th login, and all of them.
StateNonce(i) == "s" \o ToString(i)

StateNonces == {StateNonce(i) : i \in 1..MaxLogins}

\* The token generateSessionToken draws for the i-th session, and all of them.
SessionToken(i) == SessionPrefix \o <<"S" \o ToString(i)>>

SessionTokens == {SessionToken(i) : i \in 1..MaxLogins}

\* Handler.createSession at instant t.
createSession(sess, token, userID, username, role, t) ==
    Put(sess, token, [UserID |-> userID, Username |-> username, Role |-> role,
                      ExpiresAt |-> t + SessionDuration])

\* Handler.lookupSession at instant t.
lookupSession(sess, token, t) ==
    IF token \notin DOMAIN sess
    THEN None
    ELSE IF t > sess[token].ExpiresAt THEN None ELSE Some(sess[token])

\* Handler.GetSession: the cookie when the request has one, else a header
\* "Bearer ghpr_...".  cred.cookie is None when the request has no session
\* cookie.
GetSession(sess, cred, t) ==
    IF cred.cookie # None
    THEN lookupSession(sess, cred.cookie[1], t)
    ELSE IF HasPrefix(cred.authorization, <<"Bearer", " ">> \o SessionPrefix)
         THEN lookupSession(sess, TrimPrefix(cred.authorization, <<"Bearer", " ">>), t)
         ELSE None

\* The query of a callback request; "" is an absent parameter.
NoQuery == [installation_id |-> "", code |-> "", state |-> "", format |-> ""]

\* Queries GET /auth/github/callback is called with: the OAuth redirect, with
\* or without its parameters and with issued or forged states, the JSON
\* variant of the CLI, and the redirect after an app installation.
CallbackQueries ==
    { [NoQuery EXCEPT !.code = "c1", !.state = s] : s \in {"", "forged"} \cup StateNonces }
    \cup { [NoQuery EXCEPT !.state = StateNonce(1)],
           [NoQuery EXCEPT !.code = "c1", !.state = StateNonce(1), !.format = "json"],
           [NoQuery EXCEPT !.code = "c1", !.state = StateNonce(1), !.installation_id = "7"] }

\* What exchangeCode and getGitHubUser bring back from GitHub: a grant for
\* the account that authorised the code, or an error of either call.
ExchangeOutcomes ==
    { [ok |-> FALSE, profile |-> [id |-> 0, login |-> <<>>, email |-> <<>>],
       access_token |-> <<>>, refresh_token |-> <<>>, expires_in |-> 0] }
    \cup { [ok |-> TRUE, profile |-> p,
            access_token |-> <<"gho_", "A1">>, refresh_token |-> <<"ghr_", "R1">>,
            expires_in |-> ExpiresIn] : p \in Profiles }

\* The login and management layer is explored under classes of traffic:
\* "login" sends every kind of callback while the clock runs; "manage" logs
\* users in with well-formed callbacks at one instant and calls the routes of
\* package api; "session" logs users in the same way, with dev mode on or
\* off, and calls /auth/test-login, /auth/logout and /auth/status; "create"
\* logs users in and calls POST /api/tokens with good and bad bodies, under
\* two values of tokens.default_duration; "refresh" logs one account in,
\* twice, with an access token that expires within the refresh skew, creates
\* a proxy token and sends one request through the proxy.
WebWorkloads == {"login", "manage", "session", "create", "refresh", "testlogin"}

CallbackInputs(w) ==
    IF w = "login" THEN CallbackQueries
    ELSE {q \in CallbackQueries : q = [NoQuery EXCEPT !.code = "c1", !.state = q.state]
                                  /\ q.state \in StateNonces}

ExchangeInputs(w) ==
    IF w = "login" THEN ExchangeOutcomes
    ELSE IF w = "refresh"
    THEN { [ok |-> TRUE, profile |-> Profile(1, <<"Alice">>),
            access_token |-> <<"gho_", "A1">>, refresh_token |-> <<"ghr_", "R1">>,
            expires_in |-> tokenRefreshSkew] }
    ELSE {o \in ExchangeOutcomes :
             o.ok /\ o.profile \in {Profile(1, <<"Alice">>), Profile(2, <<"bob">>)}}

\* The goroutines that serve callbacks.
Callbacks == {"c1", "c2"}

IdleCallback ==
    [pc |-> "idle", q |-> NoQuery, status |-> 0, grant |-> None, session |-> <<>>, served |-> 0]

\* http.Error and http.Redirect: the status of the response, end of the callback.
CallbackAnswered(r, status) == [r EXCEPT !.pc = "done", !.status = status]

\* handleGitHubLogin: a fresh state nonce that expires after stateTTL.
GitHubLogin ==
    LET i == Cardinality({s \in StateNonces : nonces[s].issued_at # NoTime}) + 1
        state == StateNonce(i)
    IN  /\ i <= MaxLogins
        /\ states' = Put(states, state, now + stateTTL)
        /\ nonces' = [nonces EXCEPT ![state].issued_at = now]
        /\ UNCHANGED <<now, workload, server, call, migrator, cfg, proxy_tokens, github_tokens, audit_log, req, nreq,
                       revoked, lastRevoke, users, sessions, cb, api>>

\* Mutant of StateLookup: the nonce stays in the map.
StateLookupKeeps(m, state) == [ok |-> state \in DOMAIN m, states |-> m]

\* The critical section of handleGitHubCallback under stateMu: the lookup of
\* the state and its removal when it is there.
StateLookup(m, state) ==
    [ok |-> state \in DOMAIN m,
     states |-> IF state \in DOMAIN m THEN Delete(m, state) ELSE m]

\* handleGitHubCallback up to the validation of the state.  This is the first
\* step of a callback, so a goroutine that is idle or done takes the next one.
\* A client cannot guess the 128 random bits of a state before it is issued:
\* the states it sends are issued ones and "forged".
CallbackValidate(c, q) ==
    LET r == [IdleCallback EXCEPT !.q = q, !.served = cb[c].served + 1]
        found == StateLookup(states, q.state)
    IN  /\ cb[c].pc \in {"idle", "done"}
        /\ cb[c].served < MaxCallbacks
        /\ q.state \in StateNonces => nonces[q.state].issued_at # NoTime
        /\ IF q.installation_id # ""
           THEN /\ cb' = [cb EXCEPT ![c] = CallbackAnswered(r, 303)]
                /\ UNCHANGED <<states, nonces>>
           ELSE IF q.code = "" \/ q.state = ""
           THEN /\ cb' = [cb EXCEPT ![c] = CallbackAnswered(r, 400)]
                /\ UNCHANGED <<states, nonces>>
           ELSE /\ states' = found.states
                /\ IF ~found.ok \/ now > states[q.state]
                   THEN /\ cb' = [cb EXCEPT ![c] = CallbackAnswered(r, 400)]
                        /\ nonces' = IF q.state \in StateNonces
                                     THEN [nonces EXCEPT ![q.state].presented = @ + 1]
                                     ELSE nonces
                   ELSE /\ cb' = [cb EXCEPT ![c] = [r EXCEPT !.pc = "exchange"]]
                        /\ nonces' = [nonces EXCEPT ![q.state].presented = @ + 1,
                                                    ![q.state].accepted = @ + 1]
        /\ UNCHANGED <<now, workload, server, call, migrator, cfg, proxy_tokens, github_tokens, audit_log, req, nreq,
                       revoked, lastRevoke, users, sessions, api>>

\* exchangeCode and getGitHubUser: 500 when either fails.
CallbackExchange(c, outcome) ==
    /\ cb[c].pc = "exchange"
    /\ cb' = [cb EXCEPT ![c] = IF outcome.ok
                               THEN [cb[c] EXCEPT !.pc = "store", !.grant = Some(outcome)]
                               ELSE CallbackAnswered(cb[c], 500)]
    /\ UNCHANGED <<now, workload, server, call, migrator, cfg, proxy_tokens, github_tokens, audit_log, req, nreq,
                   revoked, lastRevoke, users, states, sessions, nonces, api>>

\* The rest of handleGitHubCallback: the role, UpsertUser, UpsertGitHubToken
\* and createSession with what UpsertUser left in the user struct.
CallbackStore(c, n1, n2) ==
    LET r == cb[c]
        grant == r.grant[1]
        role == IF IsAdmin(grant.profile.login) THEN "admin" ELSE "user"
        up == UpsertUser(users, NewUser(grant.profile.id, grant.profile.login,
                                        grant.profile.email, role), now)
        gt == [id |-> "g" \o ToString(Len(github_tokens) + 1),
               user_id |-> up.user.id,
               access_token |-> Encrypt(EncryptionKey, n1, grant.access_token),
               refresh_token |-> Encrypt(EncryptionKey, n2, grant.refresh_token),
               access_token_expires_at |-> now + grant.expires_in,
               refresh_token_expires_at |-> now + RefreshLifetime]
        token == SessionToken(Cardinality({s \in StateNonces : nonces[s].logged_in}) + 1)
    IN  /\ r.pc = "store"
        /\ users' = up.users
        /\ github_tokens' = UpsertGitHubToken(github_tokens, gt)
        /\ sessions' = createSession(sessions, token, up.user.id, up.user.github_username,
                                     up.user.role, now)
        /\ nonces' = [nonces EXCEPT ![r.q.state].logged_in = TRUE]
        /\ cb' = [cb EXCEPT ![c] = [CallbackAnswered(r, IF r.q.format = "json" THEN 200 ELSE 303)
                                       EXCEPT !.session = token]]
        /\ UNCHANGED <<now, workload, server, call, migrator, cfg, proxy_tokens, audit_log, req, nreq, revoked, lastRevoke,
                       states, api>>

(***************************************************************************)
(* Management API (package api), behind RequireAuth and RequireAdmin.      *)
(***************************************************************************)
Reverse(s) == [i \in 1..Len(s) |-> s[Len(s) + 1 - i]]

\* SELECT ... FROM proxy_tokens WHERE id = ?.
GetProxyTokenByID(tokens, id) == IF id \in 1..Len(tokens) THEN Some(tokens[id]) ELSE None

\* SELECT ... FROM proxy_tokens WHERE user_id = ? ORDER BY created_at DESC.
ListProxyTokens(tokens, userID) ==
    LET Mine(row) == row.user_id = userID IN Reverse(SelectSeq(tokens, Mine))

\* SELECT ... FROM proxy_tokens ORDER BY created_at DESC.
ListAllProxyTokens(tokens) == Reverse(tokens)

\* SELECT ... FROM audit_log WHERE 1=1 [AND user_id = ?] ORDER BY timestamp
\* DESC; an empty filter.UserID adds no condition.
ListAuditEntries(log, filter) ==
    LET Hit(row) == filter.UserID = "" \/ row.user_id = filter.UserID
    IN  Reverse(SelectSeq(log, Hit))

\* json.Marshal of a database.ProxyToken: TokenHash has the tag json:"-".
MarshalProxyToken(row) == [f \in DOMAIN row \ {"token_hash"} |-> row[f]]

\* json.Marshal of a list of proxy tokens.
MarshalProxyTokens(rows) == [i \in 1..Len(rows) |-> MarshalProxyToken(rows[i])]

\* The audit row the API inserts for token_created and token_revoked.
ApiAuditEntry(userID, action, sessionID) ==
    [rid |-> 0, user_id |-> userID, proxy_token_id |-> 0, action |-> action, method |-> "",
     path |-> <<>>, repository |-> <<>>, status_code |-> 0, session_id |-> sessionID]

\* The plaintexts Service.Create can hand out through the API.
ProxyPlaintext(i) == Prefix \o <<TokenBody(i)>>

ProxyPlaintexts == {ProxyPlaintext(i) : i \in 1..MaxApiTokens}

\* How a request to the API identifies itself: cookie is None when it has no
\* ghp_session cookie, authorization is the value of its Authorization header.
NoCredential == [cookie |-> None, authorization |-> <<>>]

Credentials ==
    { NoCredential,
      [NoCredential EXCEPT !.cookie = Some(SessionToken(1))],
      [NoCredential EXCEPT !.authorization = <<"Bearer", " ">> \o SessionToken(2)],
      [NoCredential EXCEPT !.cookie = Some(ProxyPlaintext(1))] }

\* The bodies POST /auth/test-login is called with; <<>> and "" are absent.
TestLoginRequests ==
    { [Username |-> <<>>, Role |-> ""], [Username |-> <<"carol">>, Role |-> "admin"] }

\* Test-logins of the testlogin workload: user names of two letters.
ShortNameRequests ==
    { [Username |-> <<"Aa">>, Role |-> ""], [Username |-> <<"BB">>, Role |-> ""],
      [Username |-> <<"carol">>, Role |-> ""] }

\* The credentials /auth/logout and /auth/status are called with.
SessionCredentials ==
    { NoCredential,
      [NoCredential EXCEPT !.cookie = Some(SessionToken(1))],
      [NoCredential EXCEPT !.authorization = <<"Bearer", " ">> \o SessionToken(2)],
      [NoCredential EXCEPT !.cookie = Some(SessionPrefix \o <<"D", "testuser">>)],
      [NoCredential EXCEPT !.authorization = <<"Bearer", " ">> \o SessionPrefix \o <<"D", "carol">>] }

\* The credentials of the API calls of workload w.
ApiInputs(w) == IF w = "manage" THEN Credentials ELSE {}

\* The credentials POST /api/tokens is called with in workload w.
CreateInputs(w) ==
    CASE w = "create" -> {NoCredential, [NoCredential EXCEPT !.cookie = Some(SessionToken(1))]}
      [] w = "refresh" -> {[NoCredential EXCEPT !.cookie = Some(SessionToken(1))]}
      [] OTHER -> ApiInputs(w)

SessionInputs(w) == IF w = "session" THEN SessionCredentials ELSE {}

TestLoginInputs(w) ==
    CASE w = "session" -> TestLoginRequests
      [] w = "testlogin" -> ShortNameRequests
      [] OTHER -> {}

\* User ids and token ids a path or a query of the API may name.
UserIDs == {"u" \o ToString(i) : i \in 1..Cardinality(Accounts)}

TokenIDs == 1..MaxApiTokens

\* strings.Split.
Split(s, sep) == SplitN(s, sep, -1)

\* strings.TrimSpace.
RECURSIVE TrimSpace(_)
TrimSpace(s) ==
    IF s # <<>> /\ Head(s) = " " THEN TrimSpace(Tail(s))
    ELSE IF s # <<>> /\ s[Len(s)] = " " THEN TrimSpace(SubSeq(s, 1, Len(s) - 1))
    ELSE s

\* The loop of ParseScopeString over the parts that are left.
RECURSIVE ParseScopeParts(_, _)
ParseScopeParts(parts, scopes) ==
    IF parts = <<>>
    THEN IF DOMAIN scopes = {}
         THEN [scopes |-> <<>>, err |-> "no valid scopes provided"]
         ELSE [scopes |-> scopes, err |-> ""]
    ELSE LET part == TrimSpace(Head(parts))
             kv == SplitN(part, ":", 2)
         IN  IF part = <<>> THEN ParseScopeParts(Tail(parts), scopes)
             ELSE IF Len(kv) # 2 THEN [scopes |-> <<>>, err |-> "invalid scope format"]
             ELSE IF Text(TrimSpace(kv[2])) \notin {"read", "write"}
                  THEN [scopes |-> <<>>, err |-> "invalid scope level"]
             ELSE ParseScopeParts(Tail(parts),
                                  Put(scopes, Text(TrimSpace(kv[1])), Text(TrimSpace(kv[2]))))

\* token.ParseScopeString: "contents:read,pulls:write" into a scopes map.
ParseScopeString(s) == ParseScopeParts(Split(s, ","), <<>>)

\* The seconds of a unit of time.ParseDuration.
UnitSeconds(unit) == CASE unit = "s" -> 1 [] unit = "m" -> 60 [] unit = "h" -> 3600

\* The decimal numbers of the requests.
IsNumber(a) == \E n \in 0..60 : ToString(n) = a

Atoi(a) == CHOOSE n \in 0..60 : ToString(n) = a

\* time.ParseDuration of an optional sign, a number and a unit ("0" needs no
\* unit), in ticks of five minutes.
ParseDuration(s) ==
    LET signed == s # <<>> /\ Head(s) \in {"-", "+"}
        rest == IF signed THEN Tail(s) ELSE s
        sign == IF signed /\ Head(s) = "-" THEN -1 ELSE 1
    IN  IF rest = <<"0">> THEN [d |-> 0, ok |-> TRUE]
        ELSE IF Len(rest) = 2 /\ IsNumber(rest[1]) /\ rest[2] \in {"s", "m", "h"}
             THEN [d |-> sign * ((Atoi(rest[1]) * UnitSeconds(rest[2])) \div 300), ok |-> TRUE]
             ELSE [d |-> 0, ok |-> FALSE]

\* A body POST /api/tokens accepts; "" and <<>> are absent members.
ValidCreateBody ==
    [Repository |-> <<"acme", "/", "widget">>, Scopes |-> <<"contents", ":", "read">>,
     Duration |-> <<"10", "m">>, SessionID |-> "s1"]

\* What POST /api/tokens is called with in workload w: in "create" with and
\* without each member and with durations on both sides of both limits.
ApiCreateRequests(w) ==
    IF w = "create"
    THEN { ValidCreateBody,
           [ValidCreateBody EXCEPT !.Repository = <<>>],
           [ValidCreateBody EXCEPT !.Scopes = <<>>],
           [ValidCreateBody EXCEPT !.Scopes = <<"contents", ":", "admin">>],
           [ValidCreateBody EXCEPT !.Duration = <<>>],
           [ValidCreateBody EXCEPT !.Duration = <<"0", "s">>],
           [ValidCreateBody EXCEPT !.Duration = <<"-", "5", "m">>],
           [ValidCreateBody EXCEPT !.Duration = <<"5", "m">>],
           [ValidCreateBody EXCEPT !.Duration = <<"15", "m">>],
           [ValidCreateBody EXCEPT !.Duration = <<"soon">>] }
    ELSE {ValidCreateBody}

IdleApi ==
    [op |-> "", cred |-> NoCredential, session |-> None, arg |-> <<>>, status |-> 0,
     body |-> <<>>]

\* writeJSON: one exchange of the API, with the credential of the request and
\* the session RequireAuth found for it.
ApiAnswered(op, cred, session, arg, status, body) ==
    [op |-> op, cred |-> cred, session |-> session, arg |-> arg, status |-> status,
     body |-> body]

\* RequireAuth and RequireAdmin: the status they answer with, 0 when they
\* call the handler.
RequireAuth(session) == IF session = None THEN 401 ELSE 0

RequireAdmin(session) ==
    IF session = None THEN 401
    ELSE IF session[1].Role # "admin" THEN 403 ELSE 0

\* Mutant of AccessDenied: every session may touch every token.
AccessDeniedNever(pt, session) == FALSE

\* handleGetToken and handleRevokeToken: neither the owner nor an admin.
AccessDenied(pt, session) == pt.user_id # session.UserID /\ session.Role # "admin"

\* handleListTokens: the rows it lists for a session.
TokensFor(tokens, session, all) ==
    IF session.Role = "admin" /\ all
    THEN ListAllProxyTokens(tokens)
    ELSE ListProxyTokens(tokens, session.UserID)

\* handleListAudit: the filter it builds for a session and a user_id parameter.
AuditFilterFor(session, uid) ==
    IF session.Role # "admin" THEN [UserID |-> session.UserID]
    ELSE [UserID |-> uid]

\* GET /api/tokens[?all=true].
ApiListTokens(cred, all) ==
    LET session == GetSession(sessions, cred, now)
        arg == <<all>>
    IN  /\ api' = IF RequireAuth(session) # 0
                   THEN ApiAnswered("ListTokens", cred, session, arg, RequireAuth(session), <<>>)
                   ELSE ApiAnswered("ListTokens", cred, session, arg, 200,
                                    MarshalProxyTokens(TokensFor(proxy_tokens, session[1], all)))
        /\ UNCHANGED <<now, workload, server, call, migrator, cfg, proxy_tokens, github_tokens, audit_log, req, nreq,
                       revoked, lastRevoke, users, states, sessions, nonces, cb>>

\* GET /api/tokens/{id}.
ApiGetToken(cred, id) ==
    LET session == GetSession(sessions, cred, now)
        pt == GetProxyTokenByID(proxy_tokens, id)
        arg == <<id>>
    IN  /\ api' = IF RequireAuth(session) # 0
                   THEN ApiAnswered("GetToken", cred, session, arg, RequireAuth(session), <<>>)
                   ELSE IF pt = None
                   THEN ApiAnswered("GetToken", cred, session, arg, 404, <<>>)
                   ELSE IF AccessDenied(pt[1], session[1])
                   THEN ApiAnswered("GetToken", cred, session, arg, 403, <<>>)
                   ELSE ApiAnswered("GetToken", cred, session, arg, 200,
                                    MarshalProxyTokens(pt))
        /\ UNCHANGED <<now, workload, server, call, migrator, cfg, proxy_tokens, github_tokens, audit_log, req, nreq,
                       revoked, lastRevoke, users, states, sessions, nonces, cb>>

\* DELETE /api/tokens/{id}: Service.Revoke and the token_revoked audit row.
ApiRevokeToken(cred, id) ==
    LET session == GetSession(sessions, cred, now)
        pt == GetProxyTokenByID(proxy_tokens, id)
        arg == <<id>>
        res == RevokeProxyToken(proxy_tokens, id, now)
        refused == IF RequireAuth(session) # 0 THEN RequireAuth(session)
                   ELSE IF pt = None THEN 404
                   ELSE IF AccessDenied(pt[1], session[1]) THEN 403
                   ELSE 0
    IN  /\ IF refused # 0
           THEN /\ api' = ApiAnswered("RevokeToken", cred, session, arg, refused, <<>>)
                /\ UNCHANGED <<proxy_tokens, audit_log, revoked, lastRevoke>>
           ELSE /\ proxy_tokens' = res.tokens
                /\ lastRevoke' = [id |-> id, ok |-> res.ok]
                /\ revoked' = IF res.ok THEN [revoked EXCEPT ![id] = @ + 1] ELSE revoked
                /\ IF res.ok
                   THEN /\ audit_log' = CreateAuditEntry(audit_log,
                                            ApiAuditEntry(session[1].UserID, "token_revoked", ""))
                        /\ api' = ApiAnswered("RevokeToken", cred, session, arg, 200, <<>>)
                   ELSE /\ api' = ApiAnswered("RevokeToken", cred, session, arg, 400, <<>>)
                        /\ UNCHANGED audit_log
        /\ UNCHANGED <<now, workload, server, call, migrator, cfg, github_tokens, req, nreq, users, states, sessions,
                       nonces, cb>>

\* GET /api/users.
ApiListUsers(cred) ==
    LET session == GetSession(sessions, cred, now)
    IN  /\ api' = IF RequireAdmin(session) # 0
                   THEN ApiAnswered("ListUsers", cred, session, <<>>, RequireAdmin(session), <<>>)
                   ELSE ApiAnswered("ListUsers", cred, session, <<>>, 200, ListUsers(users))
        /\ UNCHANGED <<now, workload, server, call, migrator, cfg, proxy_tokens, github_tokens, audit_log, req, nreq,
                       revoked, lastRevoke, users, states, sessions, nonces, cb>>

\* GET /api/users/{id}/tokens.
ApiListUserTokens(cred, id) ==
    LET session == GetSession(sessions, cred, now)
        arg == <<id>>
    IN  /\ api' = IF RequireAdmin(session) # 0
                   THEN ApiAnswered("ListUserTokens", cred, session, arg, RequireAdmin(session), <<>>)
                   ELSE ApiAnswered("ListUserTokens", cred, session, arg, 200,
                                    MarshalProxyTokens(ListProxyTokens(proxy_tokens, id)))
        /\ UNCHANGED <<now, workload, server, call, migrator, cfg, proxy_tokens, github_tokens, audit_log, req, nreq,
                       revoked, lastRevoke, users, states, sessions, nonces, cb>>

\* GET /api/audit[?user_id=...]; uid is "" when the parameter is absent.
ApiListAudit(cred, uid) ==
    LET session == GetSession(sessions, cred, now)
        arg == <<uid>>
    IN  /\ api' = IF RequireAuth(session) # 0
                   THEN ApiAnswered("ListAudit", cred, session, arg, RequireAuth(session), <<>>)
                   ELSE ApiAnswered("ListAudit", cred, session, arg, 200,
                                    ListAuditEntries(audit_log,
                                                     AuditFilterFor(session[1], uid)))
        /\ UNCHANGED <<now, workload, server, call, migrator, cfg, proxy_tokens, github_tokens, audit_log, req, nreq,
                       revoked, lastRevoke, users, states, sessions, nonces, cb>>

\* POST /api/tokens: the credential of the session's user, Service.Create
\* with a freshly generated plaintext, and the token_created audit row.
ApiCreateToken(cred, body) ==
    LET session == GetSession(sessions, cred, now)
        parsed == ParseScopeString(body.Scopes)
        given == ParseDuration(body.Duration)
        duration == IF body.Duration # <<>> THEN given.d ELSE cfg.DefaultDuration
        gt == GetGitHubToken(github_tokens, session[1].UserID)
        cr == [UserID |-> session[1].UserID, GitHubTokenID |-> gt[1].id,
               Repository |-> body.Repository, Scopes |-> parsed.scopes,
               Duration |-> duration, SessionID |-> body.SessionID]
        res == CreateProxyToken(proxy_tokens,
                                NewProxyToken(cr, ProxyPlaintext(Len(proxy_tokens) + 1), now))
        refused == IF RequireAuth(session) # 0 THEN RequireAuth(session)
                   ELSE IF parsed.err # "" THEN 400
                   ELSE IF body.Duration # <<>> /\ ~given.ok THEN 400
                   ELSE IF gt = None THEN 400
                   ELSE IF CreateError(cr) # "" THEN 400
                   ELSE IF ~res.ok THEN 400
                   ELSE 0
    IN  /\ Len(proxy_tokens) < MaxApiTokens
        /\ IF refused # 0
           THEN /\ api' = ApiAnswered("CreateToken", cred, session, <<body>>, refused, <<>>)
                /\ UNCHANGED <<proxy_tokens, audit_log>>
           ELSE /\ proxy_tokens' = res.tokens
                /\ audit_log' = CreateAuditEntry(audit_log,
                                    ApiAuditEntry(session[1].UserID, "token_created", body.SessionID))
                /\ api' = ApiAnswered("CreateToken", cred, session, <<body>>, 201,
                                      <<ProxyPlaintext(Len(proxy_tokens) + 1)>>)
        /\ UNCHANGED <<now, workload, server, call, migrator, cfg, github_tokens, req, nreq, revoked, lastRevoke, users,
                       states, sessions, nonces, cb>>

\* POST /auth/logout: deleteSession of the cookie's value, always 200.  The
\* exchange keeps the session the request presented.
Logout(cred) ==
    /\ sessions' = IF cred.cookie # None THEN Delete(sessions, cred.cookie[1]) ELSE sessions
    /\ api' = ApiAnswered("Logout", cred, GetSession(sessions, cred, now), <<>>, 200, <<>>)
    /\ UNCHANGED <<now, workload, server, call, migrator, cfg, proxy_tokens, github_tokens, audit_log, req, nreq,
                   revoked, lastRevoke, users, states, nonces, cb>>

\* GET /auth/status: 401 without a session, else 200 with the session's user.
Status(cred) ==
    LET session == GetSession(sessions, cred, now)
    IN  /\ api' = IF session = None
                   THEN ApiAnswered("Status", cred, session, <<>>, 401, <<>>)
                   ELSE ApiAnswered("Status", cred, session, <<>>, 200, session)
        /\ UNCHANGED <<now, workload, server, call, migrator, cfg, proxy_tokens, github_tokens, audit_log, req, nreq,
                       revoked, lastRevoke, users, states, sessions, nonces, cb>>

\* The synthetic GitHub id handleTestLogin derives from the username.
\* The code points of the runes of an atom of a user name.
Runes(a) ==
    CASE a = "testuser" -> <<116, 101, 115, 116, 117, 115, 101, 114>>
      [] a = "carol" -> <<99, 97, 114, 111, 108>>
      [] a = "Aa" -> <<65, 97>>
      [] a = "BB" -> <<66, 66>>

\* The loop of handleTestLogin over the runes that are left of the name:
\* ghID = ghID*31 + int64(c).
RECURSIVE HashRunes(_, _, _)
HashRunes(username, rs, ghID) ==
    IF rs # <<>> THEN HashRunes(username, Tail(rs), MulAdd(ghID, 31, Head(rs)))
    ELSE IF username # <<>> THEN HashRunes(Tail(username), Runes(Head(username)), ghID)
    ELSE ghID

\* The GitHub id handleTestLogin derives from the user name: the sum of the
\* loop plus 900000.
TestGitHubID(username) == MulAdd(HashRunes(username, <<>>, Int64(0)), 1, 900000)

\* The token generateSessionToken draws for the session of a test user.
TestSessionToken(username) == SessionPrefix \o <<"D">> \o username

\* POST /auth/test-login.  The route exists only in dev mode; without it no
\* pattern of the mux matches and the request is answered 404.  With it:
\* handleTestLogin, which upserts the user with the role of the body, stores
\* a dummy credential and creates a session.  A test-login is made with a
\* user name that no row of users has.
TestLogin(body) ==
    LET username == IF body.Username = <<>> THEN <<"testuser">> ELSE body.Username
        role == IF body.Role = "" THEN "user" ELSE body.Role
        up == UpsertUser(users, NewUser(TestGitHubID(username), username,
                                        username \o <<"@", "test.local">>, role), now)
        dummy == Encrypt(EncryptionKey, "n1", <<"gho_", "test_dummy_token">>)
        gt == [id |-> "g" \o ToString(Len(github_tokens) + 1),
               user_id |-> up.user.id,
               access_token |-> dummy,
               refresh_token |-> dummy,
               access_token_expires_at |-> now + ExpiresIn,
               refresh_token_expires_at |-> now + RefreshLifetime]
        token == TestSessionToken(username)
    IN  IF <<"POST", "/auth/test-login">> \in AuthRoutes(cfg)
        THEN /\ \A i \in 1..Len(users) : users[i].github_username # username
             /\ users' = up.users
             /\ github_tokens' = UpsertGitHubToken(github_tokens, gt)
             /\ sessions' = createSession(sessions, token, up.user.id, up.user.github_username,
                                          up.user.role, now)
             /\ api' = ApiAnswered("TestLogin", NoCredential, None, <<body>>, 200, <<token>>)
             /\ UNCHANGED <<now, workload, server, call, migrator, cfg, proxy_tokens, audit_log, req, nreq, revoked,
                            lastRevoke, states, nonces, cb>>
        ELSE /\ api' = ApiAnswered("TestLogin", NoCredential, None, <<body>>, 404, <<>>)
             /\ UNCHANGED <<now, workload, server, call, migrator, cfg, proxy_tokens, github_tokens, audit_log, req,
                            nreq, revoked, lastRevoke, users, states, sessions, nonces, cb>>

(***************************************************************************)
(* The service API and the clock.                                          *)
(***************************************************************************)
\* Service.Create with a freshly generated plaintext.
Create(cr, body) ==
    LET res == CreateProxyToken(proxy_tokens, NewProxyToken(cr, Prefix \o <<body>>, now))
    IN  /\ Len(proxy_tokens) < MaxTokens
        /\ StoreOpen
        /\ CreateError(cr) = ""
        /\ res.ok
        /\ proxy_tokens' = res.tokens
        /\ UNCHANGED <<now, workload, server, call, migrator, webVars, github_tokens, audit_log, req, nreq, revoked, lastRevoke>>

\* Service.Revoke: one conditional UPDATE, atomic in the store.  revoked counts
\* the successful revokes of each id and lastRevoke keeps the last outcome.
\* Revokes are exercised in the auth workload, between any two steps of a
\* request.
Revoke(id) ==
    LET res == RevokeProxyToken(proxy_tokens, id, now)
    IN  /\ workload = "auth"
        /\ proxy_tokens' = res.tokens
        /\ lastRevoke' = [id |-> id, ok |-> res.ok]
        /\ revoked' = IF res.ok THEN [revoked EXCEPT ![id] = @ + 1] ELSE revoked
        /\ UNCHANGED <<now, workload, server, call, migrator, webVars, github_tokens, audit_log, req, nreq>>

\* The last tick of the clock in a run of workload w.
Horizon(w) ==
    CASE w = "login" -> MaxLoginTime
      [] w \in {"manage", "session", "create", "testlogin"} -> 0
      [] w = "refresh" -> tokenRefreshSkew
      [] OTHER -> MaxTime

Tick ==
    /\ now < Horizon(workload)
    /\ now' = now + 1
    /\ UNCHANGED <<workload, server, call, migrator, webVars, proxy_tokens, github_tokens, audit_log, req, nreq, revoked, lastRevoke>>

Init ==
    /\ now = 0
    /\ workload \in Workloads
    /\ proxy_tokens = <<>>
    /\ github_tokens =
          << [id |-> "g1", user_id |-> UserID,
              access_token |-> Encrypt(EncryptionKey, "n1", <<"gho_", "A1">>),
              refresh_token |-> Encrypt(EncryptionKey, "n1", <<"ghr_", "R1">>),
              access_token_expires_at |-> tokenRefreshSkew,
              refresh_token_expires_at |-> RefreshLifetime] >>
    /\ audit_log = <<>>
    /\ req = [h \in Handlers |-> IdleRequest]
    /\ nreq = 0
    /\ revoked = [id \in 1..MaxTokens |-> 0]
    /\ lastRevoke = [id |-> 0, ok |-> FALSE]
    /\ users = UpsertUser(<<>>, NewUser(Int64(1), <<"Alice">>, Profile(1, <<"Alice">>).email, "admin"),
                          0).users
    /\ states = <<>>
    /\ sessions = <<>>
    /\ nonces = [s \in StateNonces |-> [issued_at |-> NoTime, presented |-> 0, accepted |-> 0,
                                       logged_in |-> FALSE]]
    /\ cb = [c \in Callbacks |-> IdleCallback]
    /\ api = IdleApi
    /\ cfg \in Configs(workload)
    /\ server = "serving"
    /\ call = NoCall
    /\ migrator = Migrated

Next ==
    \/ \E h \in Handlers, in \in Inputs(workload) : Accept(h, in)
    \/ \E h \in Handlers : Serve(h)
    \/ \E h \in Handlers : Check(h)
    \/ \E h \in Handlers : Load(h)
    \/ \E h \in Handlers : RefreshFails(h)
    \/ \E h \in Handlers, resp \in RefreshResponses : RefreshAnswered(h, resp)
    \/ \E h \in Handlers, n1 \in Nonces, n2 \in Nonces : Persist(h, n1, n2)
    \/ \E h \in Handlers, outcome \in UpstreamOutcomes : Dispatch(h, outcome)
    \/ \E h \in Handlers : RecordUsage(h)
    \/ \E h \in Handlers : LogRequest(h)
    \/ \E cr \in CreateRequests, body \in TokenBodies : Create(cr, body)
    \/ \E id \in 1..MaxTokens : Revoke(id)
    \/ Tick

Spec == Init /\ [][Next]_vars

(***************************************************************************)
(* The proxy in an environment with faults: the client may disconnect      *)
(* while its request is handled, which cancels r.Context(), and the store  *)
(* may fail to persist a refreshed credential.                             *)
(***************************************************************************)
\* The client of the request disconnects: net/http cancels r.Context(), and
\* every later store or HTTP call made with it returns the context's error.
Cancel(h) ==
    /\ req[h].pc \in {"serve", "check", "load", "refresh", "persist", "dispatch", "usage", "audit"}
    /\ ~req[h].cancelled
    /\ req' = [req EXCEPT ![h].cancelled = TRUE]
    /\ UNCHANGED <<now, workload, server, call, migrator, webVars, proxy_tokens, github_tokens, audit_log, nreq, revoked, lastRevoke>>

\* refreshGitHubToken when UpsertGitHubToken returns an error although the
\* context is live (the database is locked or cannot be written).
PersistFails(h, n1, n2) ==
    LET r == req[h]
        gt == Refreshed(r.gt[1], r.resp[1], n1, n2, now)
    IN  /\ r.pc = "persist"
        /\ ~r.cancelled
        /\ req' = [req EXCEPT ![h] = WithStoredToken([r EXCEPT !.gt = Some(gt)], gt)]
        /\ UNCHANGED <<now, workload, server, call, migrator, webVars, proxy_tokens, github_tokens, audit_log, nreq, revoked, lastRevoke>>

NextFaults ==
    \/ Next
    \/ \E h \in Handlers : Cancel(h)
    \/ \E h \in Handlers, n1 \in Nonces, n2 \in Nonces : PersistFails(h, n1, n2)

\* Faults are explored for the workloads that handle one request at a time.
InitFaults == Init /\ workload # "race"

SpecFaults == InitFaults /\ [][NextFaults]_vars

(***************************************************************************)
(* The proxy over a store whose writes after the response may fail too.    *)
(* failed keeps which of them returned an error to the handler of a        *)
(* request although its context was live.                                  *)
(***************************************************************************)
\* A handler that returns when RecordUsage fails.
UsageFailsReturns(h) ==
    LET r == req[h]
    IN  /\ r.pc = "usage"
        /\ ~r.cancelled
        /\ req' = [req EXCEPT ![h] = [r EXCEPT !.pc = "done", !.failed = @ \cup {"usage"}]]
        /\ UNCHANGED <<now, workload, server, call, migrator, webVars, proxy_tokens, github_tokens, audit_log, nreq, revoked, lastRevoke>>

\* tokenService.RecordUsage returns an error: it is logged, and the handler
\* goes on to logRequest.
UsageFails(h) ==
    LET r == req[h]
    IN  /\ r.pc = "usage"
        /\ ~r.cancelled
        /\ req' = [req EXCEPT ![h] = [r EXCEPT !.pc = "audit", !.failed = @ \cup {"usage"}]]
        /\ UNCHANGED <<now, workload, server, call, migrator, webVars, proxy_tokens, github_tokens, audit_log, nreq, revoked, lastRevoke>>

\* CreateAuditEntry returns an error to the logRequest of a forwarded
\* request: it is logged, and the handler returns.
AuditFails(h) ==
    LET r == req[h]
    IN  /\ r.pc = "audit"
        /\ ~r.cancelled
        /\ req' = [req EXCEPT ![h] = [r EXCEPT !.pc = "done", !.failed = @ \cup {"audit"}]]
        /\ UNCHANGED <<now, workload, server, call, migrator, webVars, proxy_tokens, github_tokens, audit_log, nreq, revoked, lastRevoke>>

\* CreateAuditEntry returns an error to the logRequest of a denied request,
\* after writeError has answered 403.
DenialAuditFails(h) ==
    LET r == req[h]
    IN  /\ r.pc = "check"
        /\ ~r.cancelled
        /\ RepoDenied(r.repo, r.pt[1]) \/ ScopeDenied(r.method, r.apiPath, r.pt[1])
        /\ req' = [req EXCEPT ![h] = [Answered(r, 403, "scope denied")
                                          EXCEPT !.failed = @ \cup {"audit"}]]
        /\ UNCHANGED <<now, workload, server, call, migrator, webVars, proxy_tokens, github_tokens, audit_log, nreq, revoked, lastRevoke>>

NextStore ==
    \/ NextFaults
    \/ \E h \in Handlers : UsageFails(h)
    \/ \E h \in Handlers : AuditFails(h)
    \/ \E h \in Handlers : DenialAuditFails(h)

SpecStore == InitFaults /\ [][NextStore]_vars

(***************************************************************************)
(* The proxy while the server is shut down by a signal.                    *)
(***************************************************************************)
\* SIGTERM or SIGINT: shutdownCtx is done and the goroutine of Run calls
\* httpServer.Shutdown, which closes the listener; httpServer.Serve returns
\* ErrServerClosed at once, while Shutdown waits for the handlers in flight.
Signal ==
    /\ server = "serving"
    /\ server' = "stopping"
    /\ UNCHANGED <<now, workload, call, migrator, webVars, proxy_tokens, github_tokens, audit_log, req,
                   nreq, revoked, lastRevoke>>

\* Run returns nil after Serve, and its deferred store.Close() closes the
\* database.  Nothing in Run waits for Shutdown to return.
RunReturns ==
    /\ server = "stopping"
    /\ server' = "closed"
    /\ UNCHANGED <<now, workload, call, migrator, webVars, proxy_tokens, github_tokens, audit_log, req,
                   nreq, revoked, lastRevoke>>

\* main returns and the process ends, with the handler goroutines that are
\* still running.
Exit ==
    /\ server = "closed"
    /\ server' = "exited"
    /\ req' = [h \in Handlers |-> IF req[h].pc \in {"idle", "done"}
                                  THEN req[h]
                                  ELSE [req[h] EXCEPT !.pc = "killed"]]
    /\ UNCHANGED <<now, workload, call, migrator, webVars, proxy_tokens, github_tokens, audit_log, nreq,
                   revoked, lastRevoke>>

NextShutdown ==
    \/ \E h \in Handlers, in \in Inputs(workload) : Accept(h, in)
    \/ \E h \in Handlers : Serve(h)
    \/ \E h \in Handlers : Check(h)
    \/ \E h \in Handlers : Load(h)
    \/ \E h \in Handlers : RefreshFails(h)
    \/ \E h \in Handlers, resp \in RefreshResponses : RefreshAnswered(h, resp)
    \/ \E h \in Handlers, n1 \in Nonces, n2 \in Nonces : Persist(h, n1, n2)
    \/ \E h \in Handlers, outcome \in UpstreamOutcomes : Dispatch(h, outcome)
    \/ \E h \in Handlers : RecordUsage(h)
    \/ \E h \in Handlers : LogRequest(h)
    \/ \E cr \in CreateRequests, body \in TokenBodies : Create(cr, body)
    \/ Tick
    \/ Signal
    \/ RunReturns
    \/ Exit

\* The shutdown is explored under the traffic of the auth workload.
InitShutdown == Init /\ workload = "auth"

SpecShutdown == InitShutdown /\ [][NextShutdown]_vars

(***************************************************************************)
(* The library functions of the packages, called on their own: each action *)
(* is one call, with arguments drawn from a bounded set, and call keeps    *)
(* the arguments and what the function returned.  The functions keep no    *)
(* state between calls, so a behaviour makes one call.                     *)
(***************************************************************************)
\* Names of permissions and the levels a scope may grant.
Permissions == {"contents", "pulls", "issues"}

Levels == {"read", "write"}

\* The Scopes values of token rows: a level for each of some permissions.
ScopeMaps == UNION { [ks -> Levels] : ks \in SUBSET Permissions }

\* s.HasPermission(permission, level)
CallHasPermission(s, permission, level) ==
    /\ call = NoCall
    /\ call' = [fn |-> "HasPermission", args |-> <<s, permission, level>>,
                result |-> <<HasPermission(s, permission, level)>>]
    /\ UNCHANGED <<now, workload, server, migrator, webVars, proxy_tokens, github_tokens, audit_log, req,
                   nreq, revoked, lastRevoke>>

\* The longest list of segments of a scope string.
MaxSegments == 3

\* Segments of scope strings: well formed, padded with spaces, empty, blank,
\* without a name, without a level, without a colon, with a level that does
\* not exist, with a second colon.
Segments ==
    { <<"contents", ":", "read">>,
      <<"pulls", ":", "write">>,
      <<" ", "pulls", " ", ":", " ", "read", " ">>,
      <<>>,
      <<" ">>,
      <<":", "read">>,
      <<"contents", ":">>,
      <<"contents">>,
      <<"contents", ":", "admin">>,
      <<"contents", ":", "read", ":", "write">> }

\* strings.Join.
RECURSIVE Join(_, _)
Join(parts, sep) ==
    IF parts = <<>> THEN <<>>
    ELSE IF Len(parts) = 1 THEN parts[1]
    ELSE parts[1] \o <<sep>> \o Join(Tail(parts), sep)

\* The scope strings of the calls.
ScopeStrings ==
    { Join(parts, ",") : parts \in UNION { [1..n -> Segments] : n \in 1..MaxSegments } }

\* token.ParseScopeString(s)
CallParseScopeString(s) ==
    /\ call = NoCall
    /\ call' = [fn |-> "ParseScopeString", args |-> <<s>>, result |-> <<ParseScopeString(s)>>]
    /\ UNCHANGED <<now, workload, server, migrator, webVars, proxy_tokens, github_tokens, audit_log, req,
                   nreq, revoked, lastRevoke>>

\* Keys of an Encryptor: the configured one and another.
Keys == {EncryptionKey, "k2"}

\* Plaintexts of the calls: the empty string and token values.
Plaintexts == {<<>>, <<"gho_", "A1">>, <<"ghr_", "R1">>, <<"gho_", "test_dummy_token">>}

CallNonces == {"n1", "n2"}

\* e.Encrypt(plaintext) with an Encryptor of key, then d.Decrypt of what it
\* returned with an Encryptor of key2.
CallEncryptDecrypt(key, nonce, plaintext, key2) ==
    /\ call = NoCall
    /\ call' = [fn |-> "Decrypt", args |-> <<key, plaintext, key2>>,
                result |-> <<Decrypt(key2, Encrypt(key, nonce, plaintext))>>]
    /\ UNCHANGED <<now, workload, server, migrator, webVars, proxy_tokens, github_tokens, audit_log, req,
                   nreq, revoked, lastRevoke>>

\* The longest path below a repository, in segments.
MaxSuffix == 3

\* Segments of the paths below /repos/acme/widget.
SuffixSegments ==
    {"contents", "git", "refs", "pulls", "issues", "1", "comments", "merge", "actions",
     "runs", "dispatches", "statuses"}

\* The paths of the calls: what lies below a repository, down to MaxSuffix
\* segments, and paths outside /repos.
ScopePaths ==
    { Path(<<"repos", "acme", "widget">> \o suffix) :
         suffix \in UNION { [1..n -> SuffixSegments] : n \in 0..MaxSuffix } }
    \cup { Path(<<"user">>), Path(<<"user", "repos">>), Path(<<"unknown", "path">>),
           Path(<<"repos", "acme">>), Path(<<"repos", "acme", "widget">>) \o <<"/">>,
           Path(<<"repos", "acme", "widget", "actions", "runs", "1", "dispatches">>),
           Path(<<"repos", "acme", "widget", "pulls", "1", "comments", "1">>),
           Path(<<"repos", "acme", "widget", "issues", "1", "labels", "bug">>) }

\* EndpointScope(method, path)
CallEndpointScope(method, path) ==
    /\ call = NoCall
    /\ call' = [fn |-> "EndpointScope", args |-> <<method, path>>,
                result |-> <<EndpointScope(method, path)>>]
    /\ UNCHANGED <<now, workload, server, migrator, webVars, proxy_tokens, github_tokens, audit_log, req,
                   nreq, revoked, lastRevoke>>

NextLibrary ==
    \/ \E s \in ScopeMaps, permission \in Permissions, level \in Levels :
          CallHasPermission(s, permission, level)
    \/ \E s \in ScopeStrings : CallParseScopeString(s)
    \/ \E key \in Keys, nonce \in CallNonces, plaintext \in Plaintexts, key2 \in Keys :
          CallEncryptDecrypt(key, nonce, plaintext, key2)
    \/ \E method \in Methods, path \in ScopePaths : CallEndpointScope(method, path)

InitLibrary ==
    /\ now = 0
    /\ workload = "library"
    /\ proxy_tokens = <<>>
    /\ github_tokens = <<>>
    /\ audit_log = <<>>
    /\ req = [h \in Handlers |-> IdleRequest]
    /\ nreq = 0
    /\ revoked = [id \in 1..MaxTokens |-> 0]
    /\ lastRevoke = [id |-> 0, ok |-> FALSE]
    /\ users = <<>>
    /\ states = <<>>
    /\ sessions = <<>>
    /\ nonces = [s \in StateNonces |-> [issued_at |-> NoTime, presented |-> 0, accepted |-> 0,
                                       logged_in |-> FALSE]]
    /\ cb = [c \in Callbacks |-> IdleCallback]
    /\ api = IdleApi
    /\ cfg = Defaults
    /\ server = "serving"
    /\ call = NoCall
    /\ migrator = Migrated

SpecLibrary == InitLibrary /\ [][NextLibrary]_vars

(***************************************************************************)
(* ghp migrate (Migrator.Migrate) on a database of its own.  files are the *)
(* names of the embedded *.up.sql files, applied the rows of               *)
(* schema_migrations, schema the migrations whose SQL is committed, in the *)
(* order of their commits; pending and ran belong to the latest call of    *)
(* Migrate.                                                                *)
(***************************************************************************)
\* The most calls of Migrate in a behaviour.
MaxMigrates == 3

\* Names of migrations later releases may ship, as sequences of digits.
MigrationNames == {<<0, 0, 1>>, <<0, 0, 2>>, <<0, 1, 0>>, <<1>>}

\* a < b for strings, as sort.Strings compares them.
RECURSIVE Less(_, _)
Less(a, b) ==
    IF b = <<>> THEN FALSE
    ELSE IF a = <<>> THEN TRUE
    ELSE IF Head(a) # Head(b) THEN Head(a) < Head(b)
    ELSE Less(Tail(a), Tail(b))

\* sort.Strings of the names of a directory.
RECURSIVE SortStrings(_)
SortStrings(names) ==
    IF names = {} THEN <<>>
    ELSE LET least == CHOOSE x \in names : \A y \in names \ {x} : Less(x, y)
         IN  <<least>> \o SortStrings(names \ {least})

\* A PendingMigrations that does not look at schema_migrations.
PendingMigrationsAll(files, applied) == SortStrings(files)

\* PendingMigrations: the sorted names of the files that have no row in
\* schema_migrations.
PendingMigrations(files, applied) ==
    SelectSeq(SortStrings(files), LAMBDA name : name \notin applied)

\* A release of the binary ships one more migration file.
Release(name) ==
    /\ migrator.pc # "running"
    /\ name \notin migrator.files
    /\ migrator' = [migrator EXCEPT !.files = @ \cup {name}]
    /\ UNCHANGED <<now, workload, server, call, webVars, proxy_tokens, github_tokens, audit_log,
                   req, nreq, revoked, lastRevoke>>

\* Migrate up to its loop: EnsureMigrationsTable and PendingMigrations.
\* Without pending migrations it returns nil.
MigrateBegins ==
    LET pending == PendingMigrations(migrator.files, migrator.applied)
    IN  /\ migrator.pc # "running"
        /\ migrator.runs < MaxMigrates
        /\ migrator' = [migrator EXCEPT !.pc = IF pending = <<>> THEN "done" ELSE "running",
                                        !.pending = pending, !.ran = <<>>, !.runs = @ + 1]
        /\ UNCHANGED <<now, workload, server, call, webVars, proxy_tokens, github_tokens,
                       audit_log, req, nreq, revoked, lastRevoke>>

\* RunMigration of the next pending name commits: the SQL of the file and
\* the row of schema_migrations, in one transaction.  After the last one
\* Migrate returns nil.
RunMigration ==
    LET name == Head(migrator.pending)
    IN  /\ migrator.pc = "running"
        /\ name \notin migrator.applied
        /\ migrator' = [migrator EXCEPT !.applied = @ \cup {name},
                                        !.schema = Append(@, name),
                                        !.ran = Append(@, name),
                                        !.pending = Tail(@),
                                        !.pc = IF Tail(migrator.pending) = <<>>
                                               THEN "done" ELSE "running"]
        /\ UNCHANGED <<now, workload, server, call, webVars, proxy_tokens, github_tokens,
                       audit_log, req, nreq, revoked, lastRevoke>>

\* RunMigration of the next pending name returns an error: the deferred
\* tx.Rollback() undoes what the transaction did, and Migrate returns the
\* error without looking at the names that are left.
RunMigrationFails ==
    /\ migrator.pc = "running"
    /\ migrator' = [migrator EXCEPT !.pc = "failed"]
    /\ UNCHANGED <<now, workload, server, call, webVars, proxy_tokens, github_tokens, audit_log,
                   req, nreq, revoked, lastRevoke>>

NextMigrate ==
    \/ \E name \in MigrationNames : Release(name)
    \/ MigrateBegins
    \/ RunMigration
    \/ RunMigrationFails

\* A new database, and the binary with the migration of the repository.
InitMigrate ==
    /\ now = 0
    /\ workload = "migrate"
    /\ proxy_tokens = <<>>
    /\ github_tokens = <<>>
    /\ audit_log = <<>>
    /\ req = [h \in Handlers |-> IdleRequest]
    /\ nreq = 0
    /\ revoked = [id \in 1..MaxTokens |-> 0]
    /\ lastRevoke = [id |-> 0, ok |-> FALSE]
    /\ users = <<>>
    /\ states = <<>>
    /\ sessions = <<>>
    /\ nonces = [s \in StateNonces |-> [issued_at |-> NoTime, presented |-> 0, accepted |-> 0,
                                       logged_in |-> FALSE]]
    /\ cb = [c \in Callbacks |-> IdleCallback]
    /\ api = IdleApi
    /\ cfg = Defaults
    /\ server = "serving"
    /\ call = NoCall
    /\ migrator = [Migrated EXCEPT !.applied = {}, !.schema = <<>>]

SpecMigrate == InitMigrate /\ [][NextMigrate]_vars

(***************************************************************************)
(* The login and management layer on a new installation: an empty          *)
(* database and no session.                                                *)
(***************************************************************************)
InitAuth ==
    /\ now = 0
    /\ workload \in WebWorkloads
    /\ proxy_tokens = <<>>
    /\ github_tokens = <<>>
    /\ audit_log = <<>>
    /\ req = [h \in Handlers |-> IdleRequest]
    /\ nreq = 0
    /\ revoked = [id \in 1..MaxApiTokens |-> 0]
    /\ lastRevoke = [id |-> 0, ok |-> FALSE]
    /\ users = <<>>
    /\ states = <<>>
    /\ sessions = <<>>
    /\ nonces = [s \in StateNonces |-> [issued_at |-> NoTime, presented |-> 0, accepted |-> 0,
                                       logged_in |-> FALSE]]
    /\ cb = [c \in Callbacks |-> IdleCallback]
    /\ api = IdleApi
    /\ cfg \in Configs(workload)
    /\ server = "serving"
    /\ call = NoCall
    /\ migrator = Migrated

NextAuth ==
    \/ GitHubLogin
    \/ \E c \in Callbacks, q \in CallbackInputs(workload) : CallbackValidate(c, q)
    \/ \E c \in Callbacks, outcome \in ExchangeInputs(workload) : CallbackExchange(c, outcome)
    \/ \E c \in Callbacks, n1 \in Nonces, n2 \in Nonces : CallbackStore(c, n1, n2)
    \/ \E cred \in SessionInputs(workload) : Logout(cred)
    \/ \E cred \in SessionInputs(workload) : Status(cred)
    \/ \E body \in TestLoginInputs(workload) : TestLogin(body)
    \/ \E cred \in CreateInputs(workload), body \in ApiCreateRequests(workload) :
          ApiCreateToken(cred, body)
    \/ \E cred \in ApiInputs(workload), all \in BOOLEAN : ApiListTokens(cred, all)
    \/ \E cred \in ApiInputs(workload), id \in TokenIDs : ApiGetToken(cred, id)
    \/ \E cred \in ApiInputs(workload), id \in TokenIDs : ApiRevokeToken(cred, id)
    \/ \E cred \in ApiInputs(workload) : ApiListUsers(cred)
    \/ \E cred \in ApiInputs(workload), id \in UserIDs : ApiListUserTokens(cred, id)
    \/ \E cred \in ApiInputs(workload), uid \in {""} \cup UserIDs : ApiListAudit(cred, uid)
    \/ \E h \in Handlers, in \in Inputs(workload) : Accept(h, in)
    \/ \E h \in Handlers : Serve(h)
    \/ \E h \in Handlers : Check(h)
    \/ \E h \in Handlers : Load(h)
    \/ \E h \in Handlers : RefreshFails(h)
    \/ \E h \in Handlers, resp \in RefreshInputs(workload) : RefreshAnswered(h, resp)
    \/ \E h \in Handlers, n1 \in Nonces, n2 \in Nonces : Persist(h, n1, n2)
    \/ \E h \in Handlers, outcome \in UpstreamOutcomes : Dispatch(h, outcome)
    \/ \E h \in Handlers : RecordUsage(h)
    \/ \E h \in Handlers : LogRequest(h)
    \/ Tick

SpecAuth == InitAuth /\ [][NextAuth]_vars

(***************************************************************************)
(* Vocabulary of the properties.                                           *)
(***************************************************************************)
\* Positions of the audit rows written for request rid.
AuditsOf(rid) == {i \in 1..Len(audit_log) : audit_log[i].rid = rid}

\* Request r wrote one audit row, with this action.
OneAudit(r, action) ==
    /\ Cardinality(AuditsOf(r.rid)) = 1
    /\ \A i \in AuditsOf(r.rid) : audit_log[i].action = action

\* Request r touched neither the credential nor the upstream nor the usage.
NothingForwarded(r) ==
    /\ r.loads = 0
    /\ r.refreshes = 0
    /\ r.out = None
    /\ r.usages = 0

\* The path begins /repos/{A}/{B}.
BeginsWithRepo(path) ==
    /\ Len(path) >= 6
    /\ SubSeq(path, 1, 3) = <<"/", "repos", "/">>
    /\ path[4] # "/"
    /\ path[5] = "/"
    /\ path[6] # "/"
    /\ Len(path) >= 7 => path[7] = "/"

\* A/B of such a path differs from the repository, letter case aside.
OtherRepo(path, repository) ==
    /\ BeginsWithRepo(path)
    /\ ToLower(SubSeq(path, 4, 6)) # ToLower(repository)

\* The REST request r is past the repository and permission checks.
Checked(r) == r.branch = "rest" /\ r.pc \notin {"idle", "serve", "check"}

\* C1: a REST request with a resolved token whose upstream path begins
\* /repos/A/B, A/B differing from the token's repository case-insensitively,
\* is answered 403 with exactly one proxy_scope_denied audit row and without
\* credential load, refresh, upstream dispatch or usage update.
C1_RepoMismatchDenied ==
    \A h \in Handlers :
        LET r == req[h]
        IN  (Checked(r) /\ OtherRepo(r.apiPath, r.pt[1].repository))
            => /\ r.pc = "done"
               /\ r.status = 403
               /\ OneAudit(r, "proxy_scope_denied")
               /\ NothingForwarded(r)

C1_Witness ==
    \E h \in Handlers :
        /\ Checked(req[h])
        /\ OtherRepo(req[h].apiPath, req[h].pt[1].repository)
        /\ req[h].apiPath = Path(<<"repos", "other", "widget", "issues">>)
        /\ req[h].status = 403

\* C2: a REST request with a resolved token that passes the repository check,
\* whose endpoint needs a permission other than metadata that the token's
\* scopes do not satisfy, is answered 403 with one proxy_scope_denied audit
\* row, and without upstream call or usage update.
C2_PermissionDenied ==
    \A h \in Handlers :
        LET r == req[h]
            scope == EndpointScope(r.method, r.apiPath)
        IN  (/\ Checked(r)
             /\ ~OtherRepo(r.apiPath, r.pt[1].repository)
             /\ ~RepoDenied(r.repo, r.pt[1])
             /\ scope[1] \notin {"", "metadata"}
             /\ ~HasPermission(ParseScopes(r.pt[1].scopes), scope[1], scope[2]))
            => /\ r.pc = "done"
               /\ r.status = 403
               /\ OneAudit(r, "proxy_scope_denied")
               /\ r.out = None
               /\ r.usages = 0

C2_Witness ==
    \E h \in Handlers :
        /\ Checked(req[h])
        /\ req[h].method = "POST"
        /\ req[h].apiPath = Path(<<"repos", "acme", "widget", "issues">>)
        /\ EndpointScope(req[h].method, req[h].apiPath) = <<"issues", "write">>
        /\ ~HasPermission(ParseScopes(req[h].pt[1].scopes), "issues", "write")
        /\ req[h].status = 403

\* A token is usable at instant t: not revoked and t before its expiry.
Usable(row, t) == row.revoked_at = NoTime /\ t < row.expires_at

\* The Authorization value is "token" or "bearer" in any letter case, one
\* space, and a value that begins with ghp_.
WellFormedBearer(auth) ==
    /\ Len(auth) >= 3
    /\ ToLower(SubSeq(auth, 1, 1)) \in {<<"token">>, <<"bearer">>}
    /\ auth[2] = " "
    /\ auth[3] = "ghp_"

\* The rows of tokens the value of the Authorization header is the plaintext of.
RowsOf(auth, tokens) ==
    {i \in 1..Len(tokens) : tokens[i].token_hash = Hash(Drop(auth, 2))}

\* The Authorization value names a token that is usable at instant t.
UsableBearer(auth, tokens, t) ==
    /\ WellFormedBearer(auth)
    /\ \E i \in RowsOf(auth, tokens) : Usable(tokens[i], t)

\* Request r was answered 401 and nothing was loaded, refreshed, dispatched
\* or counted.
Rejected(r) ==
    /\ r.pc = "done"
    /\ r.status = 401
    /\ NothingForwarded(r)

\* C3: a request goes on towards the upstream only if its Authorization
\* header is token/bearer (any case) followed by a ghp_ value that resolves
\* to a usable token; in every other case it is answered 401 and nothing is
\* loaded, refreshed, dispatched or counted.
C3_OnlyUsableBearerPasses ==
    [][\A h \in Handlers :
          (/\ req[h].pc = "serve"
           /\ req'[h].pc # "serve"
           /\ ~UsableBearer(req[h].header["Authorization"], proxy_tokens, now))
          => Rejected(req'[h])]_vars

\* C4: the upstream path of every dispatched request begins with "/" and the
\* host of the outbound URL is exactly api.github.com.
C4_OutboundHostIsGitHub ==
    \A h \in Handlers :
        req[h].out # None
        => /\ req[h].apiPath[1] = "/"
           /\ URLHost(req[h].out[1].url) = <<"api.github.com">>

\* The access tokens GitHub has issued for the stored credentials.
UpstreamAccessTokens ==
    {<<"gho_", "A1">>} \cup {resp.access_token : resp \in RefreshResponses}

\* C5: the Authorization header of every outbound request is "Bearer " and an
\* upstream access token, never the proxy token of the inbound request, and
\* of the inbound headers only Content-Type, Accept and User-Agent are copied.
C5_OutboundHeaders ==
    \A h \in Handlers :
        LET r == req[h]
        IN  r.out # None
            => /\ \E tok \in UpstreamAccessTokens :
                     r.out[1].header["Authorization"] = <<"Bearer", " ">> \o tok
               /\ r.out[1].header["Authorization"] # r.header["Authorization"]
               /\ \A i \in 1..Len(r.out[1].header["Authorization"]) :
                     r.out[1].header["Authorization"][i] # "ghp_"
               /\ \A n \in CopiedHeaders : r.out[1].header[n] = r.header[n]
               /\ \A n \in HeaderNames \ (CopiedHeaders \cup {"Authorization"}) :
                     r.out[1].header[n] = <<>>

C5_Witness ==
    \E h \in Handlers :
        /\ req[h].out # None
        /\ req[h].header["Cookie"] # <<>>
        /\ req[h].header["Accept"] # <<>>
        /\ req[h].header["Authorization"] = Bearer1

\* The Authorization value names a token whose revoke has returned.
RevokedBearer(auth, tokens) ==
    /\ WellFormedBearer(auth)
    /\ \E i \in RowsOf(auth, tokens) : revoked[i] >= 1

\* C6: once Revoke(id) has succeeded, Resolve of that token's plaintext fails
\* with the revoked error and returns no row, and a request whose token was
\* revoked before it is served is answered 401, reaches no upstream and adds
\* no audit row.
C6_RevokedNeverResolves ==
    [][/\ \A i \in 1..Len(proxy_tokens'), body \in TokenBodies :
             (revoked'[i] >= 1 /\ proxy_tokens'[i].token_hash = Hash(Prefix \o <<body>>))
             => Resolve(proxy_tokens', Prefix \o <<body>>, now') =
                   [pt |-> None, err |-> "token has been revoked"]
       /\ \A h \in Handlers :
             (/\ req[h].pc = "serve"
              /\ req'[h].pc # "serve"
              /\ RevokedBearer(req[h].header["Authorization"], proxy_tokens))
             => /\ Rejected(req'[h])
                /\ req'[h].message = "token has been revoked"
                /\ audit_log' = audit_log]_vars

C6_Witness ==
    \E h \in Handlers :
        /\ req[h].pc = "done"
        /\ req[h].status = 401
        /\ req[h].message = "token has been revoked"
        /\ RevokedBearer(req[h].header["Authorization"], proxy_tokens)

\* C7: Resolve returns the row iff the row exists, is not revoked and now is
\* before expires_at; from now = expires_at on, Resolve of a row that is not
\* revoked fails with the expired error.
C7_ResolveIffUsable ==
    \A body \in TokenBodies :
        LET plaintext == Prefix \o <<body>>
            rows == {i \in 1..Len(proxy_tokens) : proxy_tokens[i].token_hash = Hash(plaintext)}
            res == Resolve(proxy_tokens, plaintext, now)
        IN  /\ res.pt # None <=> \E i \in rows : Usable(proxy_tokens[i], now)
            /\ \A i \in rows :
                  (proxy_tokens[i].revoked_at = NoTime /\ now >= proxy_tokens[i].expires_at)
                  => res.err = "token has expired"

\* C8: RevokeProxyToken sets revoked_at only where it is null: of the revokes
\* of one id exactly one succeeds, a revoke that returns an error (already
\* revoked, or absent id) changes nothing, and revoked_at never changes once
\* it is set.
C8_RevokeOnce ==
    [][/\ \A i \in 1..Len(proxy_tokens) :
             proxy_tokens[i].revoked_at # NoTime
             => proxy_tokens'[i].revoked_at = proxy_tokens[i].revoked_at
       /\ (lastRevoke' # lastRevoke /\ ~lastRevoke'.ok)
             => proxy_tokens' = proxy_tokens /\ revoked' = revoked
       /\ \A i \in 1..MaxTokens :
             revoked'[i] = IF i <= Len(proxy_tokens') /\ proxy_tokens'[i].revoked_at # NoTime
                           THEN 1
                           ELSE 0]_vars

C8_Witness ==
    /\ Len(proxy_tokens) >= 1
    /\ proxy_tokens[1].revoked_at # NoTime
    /\ proxy_tokens[1].revoked_at < now
    /\ revoked[1] = 1
    /\ lastRevoke = [id |-> 1, ok |-> FALSE]

\* Every scope of the token is read-level.
AllRead(pt) ==
    \A k \in DOMAIN ParseScopes(pt.scopes) : ParseScopes(pt.scopes)[k] = "read"

\* C9: for a token whose scopes are all read-level, no REST request with a
\* method other than GET or HEAD is dispatched upstream, whatever the path.
C9_ReadTokenNeverWrites ==
    \A h \in Handlers :
        (/\ req[h].out # None
         /\ req[h].branch = "rest"
         /\ AllRead(req[h].pt[1]))
        => req[h].method \in {"GET", "HEAD"}

\* No rule of the table matches (method, path).
NoRule(method, path) == \A i \in 1..Len(rules) : ~RuleMatches(i, method, path)

\* C10: for a (method, path) that no rule matches EndpointScope returns
\* ("", ""), and the proxy forwards the request without a permission check,
\* unless the path begins /repos/{owner}/{name} with another repository than
\* the token's, which is still answered 403.
C10_UnknownEndpointForwarded ==
    \A h \in Handlers :
        LET r == req[h]
        IN  (Checked(r) /\ NoRule(r.method, r.apiPath))
            => /\ EndpointScope(r.method, r.apiPath) = <<"", "">>
               /\ IF OtherRepo(r.apiPath, r.pt[1].repository)
                  THEN r.pc = "done" /\ r.status = 403 /\ r.out = None
                  ELSE /\ r.status # 403
                       /\ r.pc # "load" => r.loads = 1
                       /\ r.pc \in {"usage", "audit", "done"} => r.out # None

C10_Witness ==
    \E h \in Handlers :
        /\ Checked(req[h])
        /\ req[h].method = "DELETE"
        /\ req[h].apiPath = Path(<<"repos", "acme", "widget", "git", "refs", "heads">>)
        /\ NoRule(req[h].method, req[h].apiPath)
        /\ req[h].out # None

\* The (permission, level) the table of scopes requires for a write method on
\* a path of TablePaths, <<"", "">> where the table has no row.
RequiredScope(method, path) ==
    IF Len(path) = 12 /\ path[8] = "issues" /\ path[12] \in IssueSubs
    THEN <<"issues", "write">>
    ELSE IF Len(path) = 12 /\ path[8] = "pulls" /\ path[12] \in PullSubs
    THEN <<"pulls", "write">>
    ELSE IF Len(path) = 8 /\ path[8] \in CheckKinds /\ method = "POST"
    THEN <<"checks", "write">>
    ELSE <<"", "">>

\* C11: for POST, PUT and DELETE on the comments, labels and assignees of an
\* issue EndpointScope yields (issues, write); on the files, commits, reviews,
\* comments and requested_reviewers of a pull request (pulls, write); for
\* POST on check-runs and check-suites (checks, write).
C11_WriteRowsOfTable ==
    \A h \in Handlers :
        LET r == req[h]
        IN  (/\ Checked(r)
             /\ r.apiPath \in TablePaths
             /\ RequiredScope(r.method, r.apiPath) # <<"", "">>)
            => EndpointScope(r.method, r.apiPath) = RequiredScope(r.method, r.apiPath)

\* C12: every request the proxy itself answered with a 4xx status (401 for
\* a bearer that is missing, malformed, unknown, revoked or expired, 403 for
\* a repository or permission denial) has an audit row.
C12_DenialsAudited ==
    \A h \in Handlers :
        (/\ req[h].pc = "done"
         /\ req[h].out = None
         /\ req[h].status \in {401, 403})
        => AuditsOf(req[h].rid) # {}

\* The audit rows of request r with action proxy_request.
ProxyRequestAudits(r) ==
    {i \in AuditsOf(r.rid) : audit_log[i].action = "proxy_request"}

\* C13: every request that was dispatched upstream has, once it is handled,
\* exactly one proxy_request audit row, with the token's id, the method, the
\* upstream path, the repository and the status returned, also when the
\* client disconnects after the dispatch.
C13_DispatchAudited ==
    \A h \in Handlers :
        LET r == req[h]
        IN  (r.pc = "done" /\ r.out # None)
            => /\ Cardinality(ProxyRequestAudits(r)) = 1
               /\ \A i \in ProxyRequestAudits(r) :
                     /\ audit_log[i].proxy_token_id = r.pt[1].id
                     /\ audit_log[i].method = r.method
                     /\ audit_log[i].path = r.apiPath
                     /\ audit_log[i].repository = r.repo
                     /\ audit_log[i].status_code = r.status

\* The credential rows of the user of request r.
RowsOfUser(creds, r) == {i \in 1..Len(creds) : creds[i].id = r.pt[1].github_token_id}

\* Row gt holds the pair of the refresh response resp, with both expiries
\* counted from instant t.
HoldsResponse(gt, resp, t) ==
    /\ Decrypt(EncryptionKey, gt.access_token) = Some(resp.access_token)
    /\ Decrypt(EncryptionKey, gt.refresh_token) = Some(resp.refresh_token)
    /\ gt.access_token_expires_at = t + resp.expires_in
    /\ gt.refresh_token_expires_at = t + RefreshLifetime

\* C14: a credential whose access token expires less than five minutes from
\* now is refreshed before the dispatch, and a successful refresh replaces
\* both ciphertexts and both expiries of the row in one upsert and gives the
\* dispatch the new access token; a credential that expires five minutes or
\* more from now is not refreshed and the stored access token is used.
C14_RefreshWhenStale ==
    [][\A h \in Handlers :
          LET r == req[h]
              q == req'[h]
          IN  /\ (r.pc = "load" /\ q.pc # "load")
                 => \A i \in RowsOfUser(github_tokens, r) :
                       IF github_tokens[i].access_token_expires_at < now + tokenRefreshSkew
                       THEN q.pc = "refresh" /\ q.out = None /\ q.refreshes = 0
                       ELSE /\ q.pc = "dispatch"
                            /\ q.refreshes = 0
                            /\ Some(q.githubToken) =
                                  Decrypt(EncryptionKey, github_tokens[i].access_token)
                            /\ github_tokens' = github_tokens
              /\ (r.pc = "refresh" /\ q.pc # "refresh")
                 => q.refreshes = 1 /\ q.out = None
              /\ (r.pc = "persist" /\ q.pc # "persist")
                 => /\ q.pc = "dispatch"
                    /\ q.githubToken = r.resp[1].access_token
                    /\ Len(github_tokens') = Len(github_tokens)
                    /\ \A i \in RowsOfUser(github_tokens', r) :
                          HoldsResponse(github_tokens'[i], r.resp[1], now)
              /\ (r.pc = "dispatch" /\ q.pc # "dispatch")
                 => q.out # None
                    /\ q.out[1].header["Authorization"] = <<"Bearer", " ">> \o r.githubToken]_vars

C14_Witness ==
    \E h \in Handlers :
        /\ req[h].pc = "done"
        /\ req[h].refreshes = 1
        /\ req[h].out # None
        /\ req[h].out[1].header["Authorization"] = <<"Bearer", " ", "gho_", "A2">>
        /\ \E resp \in RefreshResponses, t \in 0..MaxTime :
              HoldsResponse(github_tokens[1], resp, t)

\* C15: when a refresh attempt fails at any step (decrypting the refresh
\* token, the HTTP call, the status, the error field, encrypting or
\* persisting the new pair), the client sees no error of it, the stored row
\* is left as it was, and the request is dispatched with the access token
\* that was stored before the attempt.
C15_RefreshFailureFallsBack ==
    [][\A h \in Handlers :
          LET r == req[h]
              q == req'[h]
          IN  (/\ r.pc \in {"refresh", "persist"}
               /\ q.pc \notin {"refresh", "persist"}
               /\ ~r.cancelled
               /\ github_tokens' = github_tokens)
              => /\ q.pc = "dispatch"
                 /\ q.status = 0
                 /\ \A i \in RowsOfUser(github_tokens, r) :
                       Some(q.githubToken) =
                          Decrypt(EncryptionKey, github_tokens[i].access_token)]_vars

\* A step of the handler h is possible.
CanStep(h) ==
    \/ ENABLED Load(h)
    \/ ENABLED RefreshFails(h)
    \/ ENABLED (\E n1 \in Nonces, n2 \in Nonces : Persist(h, n1, n2))
    \/ ENABLED (\E outcome \in UpstreamOutcomes : Dispatch(h, outcome))
    \/ ENABLED RecordUsage(h)
    \/ ENABLED LogRequest(h)

\* The credential row as the OAuth login stored it.
LoginRow(gt) ==
    /\ Decrypt(EncryptionKey, gt.access_token) = Some(<<"gho_", "A1">>)
    /\ Decrypt(EncryptionKey, gt.refresh_token) = Some(<<"ghr_", "R1">>)

\* C16: when two handlers load the same stale credential and both refresh
\* it, neither blocks, both requests are dispatched with an access token and
\* answered, the user still has exactly one credential row, and the row's
\* ciphertexts and expiries come from one and the same refresh response.
C16_ConcurrentRefresh ==
    /\ Cardinality({i \in 1..Len(github_tokens) : github_tokens[i].user_id = UserID}) = 1
    /\ \A i \in 1..Len(github_tokens) :
          \/ LoginRow(github_tokens[i])
          \/ \E resp \in RefreshResponses, t \in 0..MaxTime :
                HoldsResponse(github_tokens[i], resp, t)
    /\ \A h \in Handlers :
          LET r == req[h]
          IN  /\ r.pc \in {"load", "refresh", "persist", "dispatch", "usage", "audit"}
                 => CanStep(h)
              /\ (r.pc = "done" /\ r.loads = 1)
                 => /\ r.out # None
                    /\ r.githubToken \in UpstreamAccessTokens
                    /\ r.out[1].header["Authorization"] = <<"Bearer", " ">> \o r.githubToken
                    /\ r.status \in {200, 404, 502}

C16_Witness ==
    /\ \A h \in Handlers :
          /\ req[h].pc = "done"
          /\ req[h].refreshes = 1
          /\ req[h].resp # None
          /\ req[h].out # None
    /\ req["h1"].resp # req["h2"].resp
    /\ HoldsResponse(github_tokens[1], req["h2"].resp[1], now)
    /\ req["h1"].out[1].header["Authorization"] # req["h2"].out[1].header["Authorization"]


(***************************************************************************)
(* Login: state nonces, roles and sessions.                                *)
(***************************************************************************)
\* Callback r presents a state: it carries a code and a state and is not the
\* redirect after an app installation, so it reaches the nonce store.
Presents(r) == r.q.installation_id = "" /\ r.q.code # "" /\ r.q.state # ""

\* The state of query q was issued by GET /auth/github at most stateTTL ago
\* and no callback has presented it yet.
Fresh(q, t) ==
    /\ q.state \in StateNonces
    /\ nonces[q.state].issued_at # NoTime
    /\ t <= nonces[q.state].issued_at + stateTTL
    /\ nonces[q.state].presented = 0

\* Goroutine c takes a callback in this step.
Begins(c) == cb[c].pc \in {"idle", "done"} /\ cb'[c].served = cb[c].served + 1

\* C17: a state nonce is accepted by at most one callback, and only within
\* 10 minutes of its issue.  A callback that presents a state is let through
\* to the code exchange iff the state is fresh; otherwise it is answered 400
\* and creates no user, credential or session.  Once presented, a nonce is
\* gone from the store, also when the callback that presented it fails later.
C17_StateSingleUse ==
    [][ /\ \A s \in StateNonces : nonces'[s].accepted <= 1
        /\ \A c \in Callbacks :
              (Begins(c) /\ Presents(cb'[c]))
              => /\ cb'[c].q.state \notin DOMAIN states'
                 /\ cb'[c].pc = "exchange" <=> Fresh(cb'[c].q, now)
                 /\ ~Fresh(cb'[c].q, now)
                    => /\ cb'[c].pc = "done" /\ cb'[c].status = 400
                       /\ UNCHANGED <<users, github_tokens, sessions>>
        /\ \A c \in Callbacks :
              (cb'[c].pc # "idle" /\ Presents(cb'[c]))
              => /\ cb'[c].q.state \notin DOMAIN states'
                 /\ cb'[c].status \in {400, 500} => cb'[c].session = <<>>
      ]_vars

\* A callback was let through with a state and failed at the code exchange,
\* and the other callback presented the same state and was answered 400.
C17_Witness ==
    \E c \in Callbacks, d \in Callbacks, s \in StateNonces :
        /\ c # d
        /\ cb[c].pc = "done" /\ cb[c].status = 500 /\ cb[c].q.state = s
        /\ cb[d].pc = "done" /\ cb[d].status = 400 /\ cb[d].q.state = s /\ Presents(cb[d])
        /\ nonces[s].presented = 2
        /\ nonces[s].accepted = 1
        /\ users = <<>> /\ sessions = <<>>

\* C18: the session a successful callback creates has role admin iff the
\* login of the profile it fetched is in the admin allowlist, whether the
\* account logs in for the first time or has a row in users already.
C18_RoleFromAllowlist ==
    \A c \in Callbacks :
        LET r == cb[c]
        IN  (r.pc = "done" /\ r.session # <<>> /\ r.session \in DOMAIN sessions)
            => /\ sessions[r.session].Username = r.grant[1].profile.login
               /\ sessions[r.session].Role = "admin" <=> IsAdmin(r.grant[1].profile.login)

(***************************************************************************)
(* Management API: what a session that is not an admin can reach.          *)
(***************************************************************************)
\* The step is an exchange of the API made with a session whose role is not
\* admin.
NonAdminCall ==
    /\ api' # api
    /\ api'.session # None
    /\ api'.session[1].Role # "admin"

\* Token id is in the table and belongs to another user than session.
OthersToken(tokens, id, session) ==
    id \in 1..Len(tokens) /\ tokens[id].user_id # session.UserID

\* Every row of the sequence belongs to the user of the session.
AllOwn(rows, session) == \A i \in 1..Len(rows) : rows[i].user_id = session.UserID

\* C19: a session whose role is not admin reads and revokes only its own
\* tokens and reads only its own audit entries.  GET and DELETE
\* /api/tokens/{id} on another user's token answer 403 and leave the tables
\* as they are, a token it does get or revoke is its own, GET /api/tokens
\* lists exactly its tokens with and without all=true, GET /api/audit lists
\* exactly its entries whatever user_id asks for, and GET /api/users and
\* GET /api/users/{id}/tokens answer 403 without a body.
C19_NonAdminOwnOnly ==
    [][ NonAdminCall
        => LET session == api'.session[1]
               op == api'.op
           IN  /\ (op \in {"GetToken", "RevokeToken"}
                   /\ OthersToken(proxy_tokens, api'.arg[1], session))
                  => /\ api'.status = 403
                     /\ api'.body = <<>>
                     /\ UNCHANGED <<proxy_tokens, audit_log, github_tokens, users, revoked>>
               /\ (op = "GetToken" /\ api'.status = 200) => AllOwn(api'.body, session)
               /\ (op = "RevokeToken" /\ api'.status = 200)
                  => /\ proxy_tokens[api'.arg[1]].user_id = session.UserID
                     /\ \A i \in 1..Len(proxy_tokens) :
                           i # api'.arg[1] => proxy_tokens'[i] = proxy_tokens[i]
               /\ op = "ListTokens"
                  => /\ api'.status = 200
                     /\ api'.body = MarshalProxyTokens(ListProxyTokens(proxy_tokens,
                                                                      session.UserID))
                     /\ AllOwn(api'.body, session)
               /\ op = "ListAudit"
                  => /\ api'.status = 200
                     /\ api'.body = ListAuditEntries(audit_log, [UserID |-> session.UserID])
                     /\ AllOwn(api'.body, session)
               /\ op \in {"ListUsers", "ListUserTokens"}
                  => api'.status = 403 /\ api'.body = <<>>
               /\ op \in {"GetToken", "ListTokens", "ListAudit", "ListUsers", "ListUserTokens"}
                  => UNCHANGED <<proxy_tokens, audit_log, github_tokens, users, revoked>>
      ]_vars

\* A session that is not an admin asked to revoke the live token of another
\* user, while it has a token of its own, and was answered 403.
C19_Witness ==
    /\ api.op = "RevokeToken"
    /\ api.status = 403
    /\ api.session # None
    /\ api.session[1].Role # "admin"
    /\ OthersToken(proxy_tokens, api.arg[1], api.session[1])
    /\ proxy_tokens[api.arg[1]].revoked_at = NoTime
    /\ \E i \in 1..Len(proxy_tokens) : proxy_tokens[i].user_id = api.session[1].UserID

(***************************************************************************)
(* Session tokens against proxy tokens.                                    *)
(***************************************************************************)
\* The schemes an Authorization header may name a token with.
Schemes == {"token", "Token", "bearer", "Bearer", "BEARER"}

\* The proxy's bearer extraction takes text out of some Authorization header.
ProxyExtracts(text) == \E scheme \in Schemes : extractToken(<<scheme, " ">> \o text) # <<>>

\* text yields a session at instant t, as the session cookie or in an
\* Authorization header of some scheme.
YieldsSession(text, t) ==
    \/ GetSession(sessions, [NoCredential EXCEPT !.cookie = Some(text)], t) # None
    \/ \E scheme \in Schemes :
          GetSession(sessions, [NoCredential EXCEPT !.authorization = <<scheme, " ">> \o text], t)
              # None

\* The plaintexts of the rows of proxy_tokens.
IssuedPlaintexts == {p \in ProxyPlaintexts : GetProxyTokenByHash(proxy_tokens, Hash(p)) # None}

\* Texts a client can put together from the tokens and prefixes it has seen.
TokenTexts ==
    SessionTokens \cup ProxyPlaintexts
    \cup {Prefix \o tok : tok \in SessionTokens}
    \cup {SessionPrefix \o p : p \in ProxyPlaintexts}
    \cup {Prefix \o <<"S1">>, SessionPrefix \o <<TokenBody(1)>>}

\* C20: no text authenticates both as a session and as a proxy token.  The
\* token of every session is refused by the proxy's bearer extraction and by
\* Resolve, the plaintext of every proxy token yields no session as cookie or
\* as Authorization header, and no text a client can put together passes both.
C20_SessionAndProxyTokensDisjoint ==
    /\ \A tok \in DOMAIN sessions :
          /\ HasPrefix(tok, SessionPrefix)
          /\ ~ProxyExtracts(tok)
          /\ Resolve(proxy_tokens, tok, now).pt = None
    /\ \A p \in IssuedPlaintexts : HasPrefix(p, Prefix) /\ ~YieldsSession(p, now)
    /\ \A text \in TokenTexts :
          ~(YieldsSession(text, now) /\ ProxyExtracts(text))
    /\ (api.status # 0 /\ api.cred.cookie # None /\ api.cred.cookie[1] \in ProxyPlaintexts)
       => api.session = None /\ api.status = 401

\* There is a live session and a usable proxy token, and the API has just
\* refused a request that carried the proxy token as its session cookie.
C20_Witness ==
    /\ \E tok \in DOMAIN sessions : YieldsSession(tok, now)
    /\ \E p \in IssuedPlaintexts :
          /\ ProxyExtracts(p)
          /\ Resolve(proxy_tokens, p, now).pt # None
          /\ api.cred = [NoCredential EXCEPT !.cookie = Some(p)]
    /\ api.status = 401

(***************************************************************************)
(* Dev mode and the creation of sessions.                                  *)
(***************************************************************************)
\* This step answers a POST /auth/test-login.
TestLoginStep == api' # api /\ api'.op = "TestLogin"

\* This step ends an OAuth callback with a login: 303 with the session
\* cookie, or 200 with the session in the JSON body.
CallbackSucceeds ==
    \E c \in Callbacks :
        /\ cb[c].pc = "store"
        /\ cb'[c].status \in {200, 303}
        /\ cb'[c].session \in DOMAIN sessions'

\* C21: dev_mode is false in the default configuration, and while it is
\* false a POST /auth/test-login is answered 404 and leaves the users, the
\* stored GitHub credentials and the sessions as they were, and a step that
\* adds a session is the last step of a successful OAuth callback.
C21_TestLoginOnlyInDevMode ==
    [][ /\ ~Defaults.DevMode
        /\ ~cfg.DevMode =>
              /\ TestLoginStep =>
                    /\ api'.status = 404
                    /\ UNCHANGED <<users, github_tokens, sessions>>
              /\ ~(DOMAIN sessions' \subseteq DOMAIN sessions) => CallbackSucceeds ]_vars

\* Dev mode is off, a user has logged in through GitHub and holds a session,
\* and a POST /auth/test-login has just been answered.
C21_Witness ==
    /\ ~cfg.DevMode
    /\ api.op = "TestLogin"
    /\ \E c \in Callbacks : cb[c].session \in DOMAIN sessions

(***************************************************************************)
(* Logout.                                                                 *)
(***************************************************************************)
\* The latest exchange is a POST /auth/logout that presented a live session.
LoggedOut == api.op = "Logout" /\ api.status = 200 /\ api.session # None

\* C22: once POST /auth/logout has returned, the session its request
\* presented, as cookie or as Authorization: Bearer header, authenticates no
\* more: GetSession of the same credential finds nothing, so /auth/status
\* and the API answer 401.
C22_LogoutEndsSession ==
    LoggedOut => /\ GetSession(sessions, api.cred, now) = None
                 /\ RequireAuth(GetSession(sessions, api.cred, now)) = 401

\* The part of C22 that the code keeps: a session presented to logout as
\* the cookie is gone.
C22_CookieLogoutEndsSession ==
    (LoggedOut /\ api.cred.cookie # None) => GetSession(sessions, api.cred, now) = None

(***************************************************************************)
(* Creation of proxy tokens.                                               *)
(***************************************************************************)
\* Requests Service.Create is called with, good and bad in every member.
ServiceRequests ==
    [UserID : {UserID}, GitHubTokenID : {"g1"}, SessionID : {"s1"},
     Repository : {<<>>, <<"acme", "/", "widget">>},
     Scopes : {<<>>, [contents |-> "read"]},
     Duration : -1..(maxDuration + 1)]

\* This step answers a POST /api/tokens of a logged-in user.
CreateStep == api' # api /\ api'.op = "CreateToken" /\ api'.session # None

\* The duration of the body of a POST /api/tokens, tokens.default_duration
\* when the body has none.
RequestedDuration(body) ==
    IF body.Duration = <<>> THEN cfg.DefaultDuration ELSE ParseDuration(body.Duration).d

\* The body names no repository, no scope or a duration that is not in
\* 0 < duration <= max_duration.
BadCreateBody(body) ==
    \/ body.Repository = <<>>
    \/ body.Scopes = <<>>
    \/ RequestedDuration(body) <= 0
    \/ RequestedDuration(body) > maxDuration

\* C23: Service.Create refuses a request exactly when its repository is
\* empty, its scopes are empty, its duration is not positive or its duration
\* exceeds max_duration.  A POST /api/tokens with such a body, the duration
\* being tokens.default_duration when the body has none, is answered 400 and
\* inserts no row; a well-formed body inserts exactly one row, with
\* expires_at = now + duration, revoked_at null and request_count 0.
C23_CreateValidates ==
    [][ /\ \A r \in ServiceRequests :
              CreateError(r) # "" <=> \/ r.Repository = <<>>
                                      \/ DOMAIN r.Scopes = {}
                                      \/ r.Duration <= 0
                                      \/ r.Duration > maxDuration
        /\ CreateStep =>
              LET body == api'.arg[1]
                  n == Len(proxy_tokens)
              IN  /\ BadCreateBody(body) => api'.status = 400 /\ proxy_tokens' = proxy_tokens
                  /\ api'.status # 201 => proxy_tokens' = proxy_tokens
                  /\ api'.status = 201 =>
                        /\ Len(proxy_tokens') = n + 1
                        /\ SubSeq(proxy_tokens', 1, n) = proxy_tokens
                        /\ proxy_tokens'[n + 1].expires_at = now + RequestedDuration(body)
                        /\ proxy_tokens'[n + 1].revoked_at = NoTime
                        /\ proxy_tokens'[n + 1].request_count = 0
                  /\ (~BadCreateBody(body) /\ ParseScopeString(body.Scopes).err = ""
                        /\ (body.Duration # <<>> => ParseDuration(body.Duration).ok))
                        => api'.status = 201 ]_vars

\* A POST /api/tokens without a duration has just inserted a row that expires
\* tokens.default_duration from now.
C23_Witness ==
    /\ api.op = "CreateToken"
    /\ api.status = 201
    /\ api.arg[1].Duration = <<>>
    /\ Len(proxy_tokens) = 1
    /\ proxy_tokens[1].expires_at = now + cfg.DefaultDuration
    /\ proxy_tokens[1].request_count = 0

(***************************************************************************)
(* The life of a proxy token row.                                          *)
(***************************************************************************)
\* The columns of a row that are written at insertion only.
Inserted(row) ==
    <<row.id, row.token_hash, row.token_prefix, row.user_id, row.github_token_id,
      row.repository, row.scopes, row.session_id, row.expires_at>>

\* The handlers whose UpdateProxyTokenUsage for row id completes in this step.
UsageCompletes(id) ==
    {h \in Handlers : /\ req[h].pc = "usage"
                      /\ req'[h].rid = req[h].rid
                      /\ req'[h].usages = req[h].usages + 1
                      /\ req[h].pt[1].id = id}

\* C24: a row of proxy_tokens, once inserted, stays, and keeps its hash,
\* prefix, user, credential id, repository, scopes, session label and
\* expires_at; a new row starts with request_count 0; and in every step,
\* whichever handlers run side by side, the request_count of a row grows by
\* the number of UpdateProxyTokenUsage calls that complete for its id in
\* that step, so it never decreases and always equals the number of
\* completed calls.
C24_RowImmutableCountExact ==
    [][ /\ Len(proxy_tokens') >= Len(proxy_tokens)
        /\ \A i \in 1..Len(proxy_tokens) :
              /\ Inserted(proxy_tokens'[i]) = Inserted(proxy_tokens[i])
              /\ proxy_tokens'[i].request_count >= proxy_tokens[i].request_count
              /\ proxy_tokens'[i].request_count
                    = proxy_tokens[i].request_count + Cardinality(UsageCompletes(i))
        /\ \A i \in (Len(proxy_tokens) + 1)..Len(proxy_tokens') :
              proxy_tokens'[i].request_count = 0 ]_vars

\* Two handlers have served requests with the same token, both usage updates
\* are done, and the row counts two requests.
C24_Witness ==
    /\ \A h \in Handlers : req[h].usages = 1 /\ req[h].pt # None /\ req[h].pt[1].id = 1
    /\ req["h1"].rid # req["h2"].rid
    /\ Len(proxy_tokens) = 1
    /\ proxy_tokens[1].request_count = 2

(***************************************************************************)
(* Where the plaintext of a proxy token goes.                              *)
(***************************************************************************)
\* Text p occurs in text s.
Occurs(p, s) == \E i \in 0..(Len(s) - Len(p)) : SubSeq(s, i + 1, i + Len(p)) = p

\* The texts of a proxy token row, stored or marshalled.
RowTexts(row) ==
    {row[f] : f \in DOMAIN row \cap {"token_hash", "token_prefix", "repository"}}
    \cup {<<row.session_id>>}
    \cup {row.scopes[i] : i \in 1..Len(row.scopes)}

\* The texts of an audit entry.
AuditTexts(entry) == {entry.path, entry.repository, <<entry.session_id>>, <<entry.action>>}

\* The responses that carry proxy token rows.
TokenReads == {"ListTokens", "GetToken", "ListUserTokens"}

\* C25: the plaintext of an issued proxy token occurs in no row of
\* proxy_tokens, in no audit entry and in no response of GET /api/tokens,
\* GET /api/tokens/{id} or GET /api/users/{id}/tokens, and these responses
\* leave the hash out; the 201 of POST /api/tokens carries the plaintext of
\* the row it has just inserted and of no other.
C25_PlaintextOnlyAtCreation ==
    /\ \A p \in IssuedPlaintexts :
          /\ \A i \in 1..Len(proxy_tokens) : \A s \in RowTexts(proxy_tokens[i]) : ~Occurs(p, s)
          /\ \A i \in 1..Len(audit_log) : \A s \in AuditTexts(audit_log[i]) : ~Occurs(p, s)
          /\ api.op \in TokenReads =>
                \A i \in 1..Len(api.body) : \A s \in RowTexts(api.body[i]) : ~Occurs(p, s)
    /\ api.op \in TokenReads =>
          \A i \in 1..Len(api.body) : "token_hash" \notin DOMAIN api.body[i]
    /\ (api.op = "CreateToken" /\ api.status = 201) =>
          /\ Len(api.body) = 1
          /\ Hash(api.body[1]) = proxy_tokens[Len(proxy_tokens)].token_hash
          /\ \A i \in 1..(Len(proxy_tokens) - 1) : Hash(api.body[1]) # proxy_tokens[i].token_hash

\* Two tokens are issued and an admin has just listed both.
C25_Witness ==
    /\ Cardinality(IssuedPlaintexts) = 2
    /\ api.op = "ListTokens"
    /\ api.status = 200
    /\ Len(api.body) = 2
    /\ Len(audit_log) >= 2

(***************************************************************************)
(* The credential row of a user.                                           *)
(***************************************************************************)
\* At most one row of creds for each user.
OneCredentialPerUser(creds) ==
    \A i, j \in 1..Len(creds) : creds[i].user_id = creds[j].user_id => i = j

\* Every proxy token points at a row of creds that belongs to its own user.
TokensPointAtOwnCredential(tokens, creds) ==
    \A i \in 1..Len(tokens) :
        LET gt == GetGitHubTokenByID(creds, tokens[i].github_token_id)
        IN  gt # None /\ gt[1].user_id = tokens[i].user_id

\* C26: through logins, repeat logins, refreshes and token creations a user
\* has at most one row in github_tokens, a user who has a row keeps it under
\* the same id, and the github_token_id of every proxy token names an
\* existing row of the token's own user.
C26_OneCredentialRowPerUser ==
    [][ /\ OneCredentialPerUser(github_tokens')
        /\ TokensPointAtOwnCredential(proxy_tokens', github_tokens')
        /\ \A i \in 1..Len(github_tokens) :
              LET after == GetGitHubToken(github_tokens', github_tokens[i].user_id)
              IN  after # None /\ after[1].id = github_tokens[i].id ]_vars

\* An account has logged in twice, holds a proxy token, and a request through
\* the proxy has refreshed its credential: there is one row, still "g1".
C26_Witness ==
    /\ \A s \in StateNonces : nonces[s].logged_in
    /\ Len(users) = 1
    /\ Len(proxy_tokens) = 1
    /\ proxy_tokens[1].github_token_id = "g1"
    /\ Len(github_tokens) = 1
    /\ github_tokens[1].id = "g1"
    /\ Decrypt(EncryptionKey, github_tokens[1].access_token) = Some(<<"gho_", "A2">>)

(***************************************************************************)
(* The users table.                                                        *)
(***************************************************************************)
\* The profiles of the callbacks that end with a login in this step.
LoggingIn ==
    {cb[c].grant[1].profile : c \in {d \in Callbacks : cb[d].pc = "store" /\ cb'[d].pc = "done"}}

\* The row of tbl for GitHub account id.
UserOf(tbl, id) == tbl[CHOOSE i \in 1..Len(tbl) : tbl[i].github_id = id]

\* C27: the users table has at most one row for each github_id; a row keeps
\* its id and created_at; a login of an account that has a row adds no row
\* and replaces the row's username and e-mail address with those of the
\* profile, and a login of an account without a row adds exactly one.
C27_UpsertUserByUpstreamId ==
    [][ /\ \A i, j \in 1..Len(users') : users'[i].github_id = users'[j].github_id => i = j
        /\ \A i \in 1..Len(users) :
              /\ \E j \in 1..Len(users') : users'[j].github_id = users[i].github_id
              /\ UserOf(users', users[i].github_id).id = users[i].id
              /\ UserOf(users', users[i].github_id).created_at = users[i].created_at
        /\ \A p \in LoggingIn :
              /\ Len(users') = IF \E i \in 1..Len(users) : users[i].github_id = p.id
                               THEN Len(users) ELSE Len(users) + 1
              /\ UserOf(users', p.id).github_username = p.login
              /\ UserOf(users', p.id).github_email = p.email ]_vars

\* An account that first logged in as Alice has logged in again, later and
\* renamed to bob: one row, created at the first login, with the new username
\* and e-mail address.
C27_Witness ==
    /\ Len(users) = 1
    /\ users[1].id = "u1"
    /\ users[1].role = "admin"
    /\ users[1].github_username = <<"bob">>
    /\ users[1].github_email = <<"bob", "@", "example.com">>
    /\ users[1].created_at < users[1].updated_at

(***************************************************************************)
(* Transport errors of the dispatch.                                       *)
(***************************************************************************)
\* client.Do of request r returned an error.
TransportError(r) == r.upstream = Some(0)

\* C28: a request whose dispatch failed with a transport error is answered
\* 502 after one call of client.Do, and once it is handled its token's usage
\* has been recorded once and its one proxy_request audit row has status 502.
C28_TransportErrorIs502 ==
    \A h \in Handlers :
        LET r == req[h]
        IN  TransportError(r)
            => /\ r.status = 502
               /\ r.dispatches = 1
               /\ r.pc = "done"
                     => /\ r.usages = 1
                        /\ proxy_tokens[r.pt[1].id].request_count >= 1
                        /\ Cardinality(ProxyRequestAudits(r)) = 1
                        /\ \A i \in ProxyRequestAudits(r) : audit_log[i].status_code = 502

\* A request whose dispatch failed with a transport error is handled: the
\* client has its 502, the usage is counted and the audit row is written.
C28_Witness ==
    \E h \in Handlers :
        /\ TransportError(req[h])
        /\ req[h].pc = "done"
        /\ req[h].status = 502
        /\ req[h].usages = 1
        /\ \E i \in ProxyRequestAudits(req[h]) : audit_log[i].status_code = 502

(***************************************************************************)
(* The work after the response.                                            *)
(***************************************************************************)
\* The audit rows this step inserts for request r.
NewAudits(r) == {i \in (Len(audit_log) + 1)..Len(audit_log') : audit_log'[i].rid = r.rid}

\* C29: the usage update and the audit insertion of a request, and their
\* failures, come only when its response is written, and a response once
\* written stays as it is; after the usage update, failed or not, the handler
\* goes on to the audit insertion; and the audit step, failed or not, leaves
\* the usage count alone and, unless it fails itself or the client is gone,
\* inserts the row also when the usage update has failed.
C29_PostResponseWorkIsBestEffort ==
    [][\A h \in Handlers :
          LET r == req[h]
              q == req'[h]
          IN  (q.rid = r.rid /\ r.pc # "idle")
              => /\ (q.usages > r.usages \/ NewAudits(r) # {} \/ q.failed # r.failed)
                       => q.status # 0
                 /\ r.status # 0 => q.status = r.status /\ q.message = r.message /\ q.out = r.out
                 /\ r.pc \in {"usage", "audit"} => r.status # 0
                 /\ (r.pc = "usage" /\ q.pc # "usage")
                       => q.pc = "audit" /\ audit_log' = audit_log
                 /\ (r.pc = "audit" /\ q.pc # "audit")
                       => /\ q.pc = "done"
                          /\ proxy_tokens' = proxy_tokens
                          /\ q.usages = r.usages
                          /\ (~r.cancelled /\ "audit" \notin q.failed)
                                => /\ Cardinality(NewAudits(r)) = 1
                                   /\ \A i \in NewAudits(r) :
                                         /\ audit_log'[i].action = "proxy_request"
                                         /\ audit_log'[i].status_code = r.status]_vars

\* A request was answered 200, its usage update failed, and its audit row is
\* written all the same.
C29_Witness ==
    \E h \in Handlers :
        /\ req[h].pc = "done"
        /\ req[h].status = 200
        /\ req[h].failed = {"usage"}
        /\ ~req[h].cancelled
        /\ req[h].usages = 0
        /\ \E i \in ProxyRequestAudits(req[h]) : audit_log[i].status_code = 200

(***************************************************************************)
(* The GraphQL branch.                                                     *)
(***************************************************************************)
\* Handler h ends, in this step, a request that took the GraphQL branch.
GraphQLEnds(h) == req[h].pc # "done" /\ req'[h].pc = "done" /\ req'[h].branch = "graphql"

\* Request r went from the credential to the audit: one load, at most one
\* refresh, one dispatch to the upstream /graphql, one usage update, and one
\* proxy_request row of log under the repository of its token.
GraphQLForwarded(r, log) ==
    /\ r.loads = 1
    /\ r.refreshes <= 1
    /\ r.dispatches = 1
    /\ r.out # None
    /\ r.out[1].url = githubAPIBase \o <<"/", "graphql">>
                        \o (IF r.query # <<>> THEN <<"?">> \o r.query ELSE <<>>)
    /\ r.usages = 1
    /\ Cardinality({i \in 1..Len(log) : log[i].rid = r.rid}) = 1
    /\ \A i \in 1..Len(log) :
          log[i].rid = r.rid => /\ log[i].action = "proxy_request"
                                /\ log[i].repository = r.pt[1].repository
                                /\ log[i].status_code = r.status

\* The part of C30 about usable tokens: a GraphQL request with a usable
\* token goes to the credential load without the repository and permission
\* checks, and every request of the GraphQL branch ends forwarded.
C30_UsableGraphQLForwarded ==
    [][\A h \in Handlers :
          /\ (/\ req[h].pc = "serve"
               /\ req'[h].pc # "serve"
               /\ IsGraphQL(req[h].path)
               /\ UsableBearer(req[h].header["Authorization"], proxy_tokens, now))
              => req'[h].pc = "load" /\ req'[h].branch = "graphql"
          /\ (req[h].branch = "graphql" /\ req'[h].rid = req[h].rid) => req'[h].pc # "check"
          /\ GraphQLEnds(h) => GraphQLForwarded(req'[h], audit_log')]_vars

\* C30: a request to /api/graphql or /graphql with a usable token skips the
\* repository and permission checks and ends after one credential load, a
\* refresh if the credential is stale, one dispatch to the upstream /graphql,
\* one usage update and one proxy_request audit row under the token's own
\* repository; without a usable token it is answered 401 and nothing is
\* loaded or dispatched.
C30_GraphQLNeedsOnlyUsableToken ==
    [][\A h \in Handlers :
          /\ (/\ req[h].pc = "serve"
               /\ req'[h].pc # "serve"
               /\ IsGraphQL(req[h].path))
              => IF UsableBearer(req[h].header["Authorization"], proxy_tokens, now)
                 THEN req'[h].pc = "load" /\ req'[h].branch = "graphql"
                 ELSE Rejected(req'[h])
          /\ (req[h].branch = "graphql" /\ req'[h].rid = req[h].rid) => req'[h].pc # "check"
          /\ GraphQLEnds(h) => GraphQLForwarded(req'[h], audit_log')]_vars

(***************************************************************************)
(* C31: on SIGTERM or SIGINT the server stops accepting connections, the   *)
(* handlers in flight get a grace window to finish before Run returns and  *)
(* the store is closed, and no handler in flight calls the store after it  *)
(* has been closed.                                                        *)
(***************************************************************************)
\* The step of handler h is a call of the store: the lookup of Resolve, the
\* audit row of a denial, the load or the upsert of the credential, the
\* usage update, the audit row of a forwarded request.
CallsStore(h) ==
    LET r == req[h]
    IN  /\ req'[h] # r
        /\ \/ r.pc = "serve" /\ HasPrefix(extractToken(r.header["Authorization"]), Prefix)
           \/ r.pc = "check" /\ req'[h].status = 403
           \/ r.pc \in {"load", "persist", "usage", "audit"}

\* C31: once the signal has arrived no request is accepted, the store is
\* closed only when no handler is in flight, and no step of a handler calls
\* the store after it has been closed.
C31_GracefulShutdown ==
    [][/\ server # "serving" => nreq' = nreq
       /\ (server = "stopping" /\ server' = "closed")
             => \A h \in Handlers : req[h].pc \in {"idle", "done"}
       /\ server = "closed" => \A h \in Handlers : ~CallsStore(h)]_vars

\* The part of C31 the server keeps: no request is accepted after the signal.
C31_NoAcceptAfterSignal == [][server # "serving" => nreq' = nreq]_vars

(***************************************************************************)
(* C32: HasPermission(k, level) is false when k is not in the scopes; a    *)
(* scope k:write satisfies read and write, a scope k:read satisfies read   *)
(* only.                                                                   *)
(***************************************************************************)
HasPermissionCalled == call.fn = "HasPermission"

\* C32: whatever the scopes, the result of HasPermission(k, level) is false
\* for a k outside the scopes, true for both levels when scopes[k] is write,
\* and true for read and false for write when scopes[k] is read.
C32_ScopeLattice ==
    HasPermissionCalled =>
        LET scopes == call.args[1]
            k == call.args[2]
            level == call.args[3]
            holds == call.result[1]
        IN  /\ k \notin DOMAIN scopes => ~holds
            /\ (k \in DOMAIN scopes /\ scopes[k] = "write") => holds
            /\ (k \in DOMAIN scopes /\ scopes[k] = "read") => (holds <=> level = "read")

\* Reached: a scope pulls:write was asked for read, and granted.
C32_Witness ==
    /\ HasPermissionCalled
    /\ "pulls" \in DOMAIN call.args[1]
    /\ call.args[1]["pulls"] = "write"
    /\ call.args[2] = "pulls"
    /\ call.args[3] = "read"
    /\ call.result = <<TRUE>>

(***************************************************************************)
(* C33: ParseScopeString returns the map {a:b, c:d}, whitespace trimmed,   *)
(* for comma-separated word:word segments, and an error whenever a segment *)
(* is not of the form word:word (an empty segment or an empty permission   *)
(* name included), a level is not read or write, or the map would be empty.*)
(***************************************************************************)
ParseScopeStringCalled == call.fn = "ParseScopeString"

\* The segment without its white space.
Unspaced(seg) == SelectSeq(seg, LAMBDA a : a # " ")

IsWord(a) == a \notin {":", ",", " "}

\* word:word, with white space around the words.
WordColonWord(seg) ==
    LET t == Unspaced(seg)
    IN  Len(t) = 3 /\ IsWord(t[1]) /\ t[2] = ":" /\ IsWord(t[3])

\* The segments of a scope string, as the claim reads them.
SegmentsOf(s) == Split(s, ",")

\* The map of a string of word:word segments; a later segment wins.
ScopesOf(segs) ==
    [k \in {Unspaced(segs[i])[1] : i \in 1..Len(segs)} |->
        Unspaced(segs[CHOOSE i \in 1..Len(segs) :
                         /\ Unspaced(segs[i])[1] = k
                         /\ \A j \in (i + 1)..Len(segs) : Unspaced(segs[j])[1] # k])[3]]

\* Every segment is word:word with a level read or write.
WellFormedScopes(segs) ==
    \A i \in 1..Len(segs) :
        WordColonWord(segs[i]) /\ Unspaced(segs[i])[3] \in {"read", "write"}

\* C33: a string whose segments are all word:word with a level read or write
\* parses into their map, and any other string is an error.
C33_ParseScopeString ==
    ParseScopeStringCalled =>
        LET segs == SegmentsOf(call.args[1])
            res == call.result[1]
        IN  IF WellFormedScopes(segs)
            THEN res.err = "" /\ res.scopes = ScopesOf(segs)
            ELSE res.err # ""

\* What ParseScopeString does: blank segments are skipped, and of the others
\* each must have a colon and a level read or write; the name may be empty.
C33_BlankSegmentsSkipped ==
    ParseScopeStringCalled =>
        LET segs == SelectSeq(SegmentsOf(call.args[1]), LAMBDA seg : Unspaced(seg) # <<>>)
            res == call.result[1]
        IN  res.err = "" <=>
               /\ segs # <<>>
               /\ \A i \in 1..Len(segs) :
                     \E k \in 1..Len(segs[i]) :
                        /\ segs[i][k] = ":"
                        /\ \A j \in 1..(k - 1) : segs[i][j] # ":"
                        /\ Text(Unspaced(SubSeq(segs[i], k + 1, Len(segs[i]))))
                              \in {"read", "write"}

(***************************************************************************)
(* C34: Decrypt(Encrypt(p)) = p for every plaintext p under the configured *)
(* key, and decrypting that ciphertext under a different key fails with an *)
(* error instead of returning a plaintext.                                 *)
(***************************************************************************)
DecryptCalled == call.fn = "Decrypt"

\* C34: the ciphertext Encrypt returned for p decrypts to p under the key it
\* was encrypted with, and Decrypt under any other key returns an error.
C34_EncryptDecryptRoundTrip ==
    DecryptCalled =>
        LET key == call.args[1]
            p == call.args[2]
            key2 == call.args[3]
        IN  /\ key2 = key => call.result[1] = Some(p)
            /\ key2 # key => call.result[1] = None

\* Reached: a token encrypted under the configured key came back from
\* Decrypt under that key.
C34_Witness ==
    /\ DecryptCalled
    /\ call.args = <<EncryptionKey, <<"gho_", "A1">>, EncryptionKey>>
    /\ call.result = <<Some(<<"gho_", "A1">>)>>

(***************************************************************************)
(* C35: once a revoke of a token has committed, no upstream dispatch       *)
(* happens on behalf of that token, whatever the interleaving of the       *)
(* revoke with concurrent requests bearing it, the requests whose Resolve  *)
(* ran before the revoke included.                                         *)
(***************************************************************************)
\* The step sends the request of handler h upstream.
Dispatches(h) ==
    /\ req[h].pc = "dispatch"
    /\ req'[h].dispatches = req[h].dispatches + 1
    /\ req'[h].out # None

\* C35: no step sends a request upstream for a token whose revoke has
\* returned.
C35_NoDispatchAfterRevoke ==
    [][\A h \in Handlers : Dispatches(h) => revoked[req[h].pt[1].id] = 0]_vars

\* What Resolve gives: a request whose Resolve runs after the revoke has
\* returned is answered 401 and never sent upstream.
C35_NoDispatchWhenResolvedAfterRevoke ==
    [][\A h \in Handlers :
          (/\ req[h].pc = "serve"
           /\ req'[h].pc # "serve"
           /\ RevokedBearer(req[h].header["Authorization"], proxy_tokens))
          => Rejected(req'[h])]_vars

(***************************************************************************)
(* C36: when no persistence call fails, the request_count of every token   *)
(* equals the number of proxy_request audit entries that reference it:     *)
(* every dispatched request, REST or GraphQL, whatever the upstream        *)
(* status, increments it exactly once, and the requests the proxy itself   *)
(* answers 401, 403 or 500 leave it unchanged.                             *)
(***************************************************************************)
\* The proxy_request audit rows that reference token id.
RequestAuditsOf(id) ==
    {j \in 1..Len(audit_log) :
        audit_log[j].action = "proxy_request" /\ audit_log[j].proxy_token_id = id}

\* The handlers between the usage update and the audit row of a request of
\* token id.
Logging(id) == {h \in Handlers : req[h].pc = "audit" /\ req[h].pt[1].id = id}

\* request_count and the audit rows agree, the rows still to be written by
\* handlers that have counted their request included.
CountMatchesAudits ==
    \A id \in 1..Len(proxy_tokens) :
        proxy_tokens[id].request_count
            = Cardinality(RequestAuditsOf(id)) + Cardinality(Logging(id))

\* The step ends the request of handler h with an answer of the proxy itself.
AnsweredByProxy(h) ==
    /\ req[h].pc \in {"serve", "check", "load"}
    /\ req'[h].pc = "done"
    /\ req'[h].status \in {401, 403, 500}

EndpointScopeCalled == call.fn = "EndpointScope"

\* The rows of the table that apply to (method, path): the method is empty
\* or equal, and the whole path matches the pattern.
Applicable(method, path) ==
    {i \in 1..Len(rules) :
        /\ rules[i].method \in {"", method}
        /\ MatchString(rules[i].pattern, path)}

ScopeOfRule(i) == <<rules[i].permission, rules[i].level>>

\* C37: the result is the scope of the first applicable rule, or <<"", "">>
\* without one, and every applicable rule has that same scope.
C37_EndpointScopeDeterministic ==
    EndpointScopeCalled =>
        LET method == call.args[1]
            path == call.args[2]
            found == Applicable(method, path)
            first == CHOOSE i \in found : \A j \in found : i <= j
        IN  /\ found = {} => call.result[1] = <<"", "">>
            /\ found # {} => call.result[1] = ScopeOfRule(first)
            /\ \A i \in found : ScopeOfRule(i) = call.result[1]

\* Reached: a call for a path of two rules with different methods, answered
\* with the scope of the rule of the request's method.
C37_Witness ==
    /\ EndpointScopeCalled
    /\ call.args = <<"PUT", Path(<<"repos", "acme", "widget", "contents", "1">>)>>
    /\ \E i \in 1..Len(rules) :
          /\ MatchString(rules[i].pattern, call.args[2])
          /\ ScopeOfRule(i) = <<"contents", "read">>
    /\ call.result = << <<"contents", "write">> >>

(***************************************************************************)
(* C38: immediately after any refresh that the handler treats as           *)
(* successful the stored credential is not stale (access_expires_at is at  *)
(* least 5 minutes after now), so the next request of the user does not    *)
(* refresh again; also when the refresh response has expires_in 0 or       *)
(* absent, the case for which the OAuth callback substitutes 8 hours.      *)
(***************************************************************************)
\* refreshGitHubToken of handler h returns the new access token in this step.
RefreshSucceeds(h) == req[h].pc = "persist" /\ req'[h].pc = "dispatch"

\* C38: when refreshGitHubToken returns without error, the row it has stored
\* expires no sooner than tokenRefreshSkew from now.
C38_RefreshedCredentialNotStale ==
    [][\A h \in Handlers :
          RefreshSucceeds(h)
          => \A i \in 1..Len(github_tokens') :
                github_tokens'[i].id = req[h].gt[1].id => ~IsStale(github_tokens'[i], now')]_vars

\* What the refresh stores: the expiry is now plus the expires_in of the
\* answer, as it was decoded.
C38_RefreshedExpiryAsAnswered ==
    [][\A h \in Handlers :
          RefreshSucceeds(h)
          => \E i \in 1..Len(github_tokens') :
                /\ github_tokens'[i].id = req[h].gt[1].id
                /\ github_tokens'[i].access_token_expires_at
                      = now + req[h].resp[1].expires_in]_vars

(***************************************************************************)
(* C39: dev-mode test-login derives the synthetic upstream id from the     *)
(* username deterministically, and two different usernames never get the   *)
(* same id, so different test usernames always end up as distinct Users    *)
(* with separate tokens.                                                   *)
(***************************************************************************)
\* The user names of the test-logins, the default of an empty one included.
TestUsernames ==
    { IF body.Username = <<>> THEN <<"testuser">> ELSE body.Username :
         body \in TestLoginRequests \cup ShortNameRequests }

\* The sessions of test users.
TestSessions == {t \in DOMAIN sessions : \E u \in TestUsernames : t = TestSessionToken(u)}

\* C39: the user names of two sessions of test-logins, when they differ,
\* have different derived ids, and the two sessions belong to different
\* users, each with a credential row (a token) of its own.
C39_TestUsersDistinct ==
    \A s, t \in TestSessions :
        sessions[s].Username # sessions[t].Username
        => /\ TestGitHubID(sessions[s].Username) # TestGitHubID(sessions[t].Username)
           /\ sessions[s].UserID # sessions[t].UserID
           /\ \E i, j \in 1..Len(github_tokens) :
                 /\ i # j
                 /\ github_tokens[i].user_id = sessions[s].UserID
                 /\ github_tokens[j].user_id = sessions[t].UserID

\* What the derivation keeps: the id of a test user is the one derived from
\* the user name of its latest login, the same at every login of that name.
C39_TestIdDerivedFromName ==
    \A i \in 1..Len(users) :
        users[i].github_username \in TestUsernames
        => users[i].github_id = TestGitHubID(users[i].github_username)

(***************************************************************************)
(* C40: Migrate applies every pending migration exactly once, in ascending *)
(* name order, each one atomically together with its record in             *)
(* schema_migrations; after a successful Migrate PendingMigrations is      *)
(* empty and a second Migrate applies nothing; if a migration fails it is  *)
(* not recorded, later ones are not run, and earlier ones stay applied.    *)
(***************************************************************************)
\* The names in a sequence.
Range(s) == {s[i] : i \in 1..Len(s)}

\* The migrations that took effect are those recorded, each once.
RecordedIffApplied(m) ==
    /\ Range(m.schema) = m.applied
    /\ \A i, j \in 1..Len(m.schema) : m.schema[i] = m.schema[j] => i = j

\* The names of the files without a record, and the least of them.
Unapplied(m) == m.files \ m.applied

\* C40: in every state the recorded migrations are the applied ones, each
\* applied once; a step of Migrate applies at most one migration, the least
\* of the unapplied names, which is greater than all it has run before in
\* this call, and records it in the same step; when Migrate returns nil no
\* file is pending, and a Migrate that begins with nothing pending returns
\* at once and applies nothing; when a migration fails nothing is applied
\* or recorded by that step or by the rest of that call, and what was
\* applied stays.
C40_MigrateOnceInOrder ==
    [][ LET m == migrator
            n == migrator'
        IN  /\ RecordedIffApplied(n)
            /\ SubSeq(n.schema, 1, Len(m.schema)) = m.schema
            /\ Len(n.schema) <= Len(m.schema) + 1
            /\ Len(n.schema) = Len(m.schema) + 1
                  => LET name == n.schema[Len(n.schema)]
                     IN  /\ m.pc = "running"
                         /\ name \in Unapplied(m)
                         /\ \A other \in Unapplied(m) \ {name} : Less(name, other)
                         /\ \A i \in 1..Len(m.ran) : Less(m.ran[i], name)
                         /\ n.applied = m.applied \cup {name}
            /\ (n.pc = "done" /\ (m.pc = "running" \/ n.runs = m.runs + 1))
                  => PendingMigrations(n.files, n.applied) = <<>>
            /\ (n.runs = m.runs + 1 /\ Unapplied(m) = {})
                  => n.pc = "done" /\ n.schema = m.schema /\ n.applied = m.applied
            /\ (n.pc = "failed" \/ m.pc = "failed") /\ n.runs = m.runs
                  => n.schema = m.schema /\ n.applied = m.applied ]_vars

\* Reached: a call of Migrate failed at its second migration, and the next
\* call has applied the two that were left; three are applied, in the order
\* of their names.
C40_Witness ==
    /\ migrator.runs = 2
    /\ migrator.pc = "done"
    /\ Len(migrator.ran) = 2
    /\ migrator.schema = <<<<0, 0, 1>>, <<0, 0, 2>>, <<0, 1, 0>>>>

====
